---- MODULE Spec2Model ----
(***************************************************************************)
(* Model of the DebugEngine of src/lib/debug-engine.ts: the step-by-step   *)
(* execution engine that wraps a Network (src/lib/neural-network.ts), a    *)
(* loss function (losses.ts) and an Optimizer (src/lib/optimizers.ts).     *)
(*                                                                         *)
(* Tensors are dense matrices [rows, cols, data]; every number of the      *)
(* model is an integer, and the inputs (weights, data points, learning     *)
(* rate) are drawn from small sets of integers, on which the arithmetic    *)
(* of the code (IEEE doubles) is exact.                                    *)
(*                                                                         *)
(* An optional field of the code (x?: T, undefined before first use) is a  *)
(* tuple of length 0 (undefined) or 1 (the value).                         *)
(***************************************************************************)
EXTENDS Integers, Sequences, FiniteSets, TLC

(***************************************************************************)
(* Bounds of the model.                                                    *)
(***************************************************************************)
\* the numbers of layers of the networks (networkConfig.layers.length)
LayerCounts == {1, 2}
\* at most MaxCalls calls are made on an engine after its construction
MaxCalls == 6

\* the data points (x, y) that setData and trainOneEpoch are given
Xs == {1}
Ys == {0}
\* the learning rates given to stepUpdateWeights and trainOneEpoch
LearningRates == {1}
\* the values Layer's constructor may draw for a weight (a sample of the
\* interval (-limit, limit) of lines 90-103)
InitWeights == {1}

VARIABLES
    layers,             \* Network.layers: one record per Layer
    optimizer,          \* DebugEngine.optimizer
    stepHistory,        \* DebugEngine.stepHistory
    currentStepIndex,   \* DebugEngine.currentStepIndex
    currentInput,       \* DebugEngine.currentInput   (optional)
    currentTarget,      \* DebugEngine.currentTarget  (optional)
    forwardActivations, \* the array object DebugEngine.forwardActivations
                        \* refers to: a sequence of optional tensors
    currentLoss,        \* DebugEngine.currentLoss    (optional)
    lossGradient,       \* DebugEngine.lossGradient   (optional)
    networkPrototype,   \* the names of the methods a Network object has
    calls,              \* the number of calls made on the engine so far
    last,               \* the last call made on the engine and its outcome
    since,              \* what has been executed since the last setData
    iter,               \* progress of a stepped training iteration
    undoFrom            \* the live state a successful undo() left behind

(***************************************************************************)
(* The updaters the components hand to the setters of their state hooks.   *)
(***************************************************************************)
\* the number n, in thousandths
Milli(n) == 1000 * n

\* const animationSpeed = 0.1 (line 298)
AnimationSpeed == 100

(* The numbers of a parameter are JavaScript numbers: IEEE 754 doubles.    *)
(* A decimal d (in thousandths) that a literal, an input or a division     *)
(* by 100 gives is the double nearest to d / 1000, and the sum and the     *)
(* product of the animation (lines 527 and 538) are rounded to the         *)
(* nearest double, ties to even. A double near the decimal d is the        *)
(* record [d, s, n] of the value (d * 2^s + n) / (1000 * 2^s): n / 2^s     *)
(* thousandths away from d, with 2^-s the unit in its last place or a      *)
(* finer one.                                                              *)
RECURSIVE Pow2(_)
Pow2(e) == IF e = 0 THEN 1 ELSE 2 * Pow2(e - 1)

RECURSIVE Pow2Mod1000(_)
Pow2Mod1000(e) == IF e = 0 THEN 1 ELSE (2 * Pow2Mod1000(e - 1)) % 1000

\* n * 2^k
Scaled(n, k) == IF n = 0 THEN 0 ELSE n * Pow2(k)

DoubleAbs(n) == IF n < 0 THEN -n ELSE n
DoubleSign(n) == IF n < 0 THEN -1 ELSE 1

\* the binary exponent of a / 1000 for a > 0: the e with
\* 2^e <= a / 1000 < 2^(e + 1)
RECURSIVE ExponentFrom(_, _)
ExponentFrom(a, e) ==
    IF a >= 1000
    THEN IF 1000 * Pow2(e + 1) <= a THEN ExponentFrom(a, e + 1) ELSE e
    ELSE IF a * Pow2(-e) < 1000 THEN ExponentFrom(a, e - 1) ELSE e

Exponent(a) == IF a >= 1000 THEN ExponentFrom(a, 0) ELSE ExponentFrom(a, -1)

\* a / 1000 = 2^e
IsPowerOfTwo(a, e) ==
    IF e >= 0 THEN a = 1000 * Pow2(e) ELSE a * Pow2(-e) = 1000

\* the distance, in 2^-s thousandths, from a / 1000 to the multiple of
\* 2^-s nearest to it
LiteralError(a, s) ==
    LET r == ((a % 1000) * Pow2Mod1000(s)) % 1000
    IN  IF r < 500 THEN -r ELSE 1000 - r

DoubleAt(d, s) ==
    [d |-> d, s |-> s, n |-> DoubleSign(d) * LiteralError(DoubleAbs(d), s)]

\* the double a decimal denotes: the nearest one, 53 significant bits
Double(d) ==
    IF d = 0 THEN [d |-> 0, s |-> 0, n |-> 0]
    ELSE DoubleAt(d, 52 - Exponent(DoubleAbs(d)))

\* the inverse of 125 modulo a power of two
Inverse125(mod) == CHOOSE i \in 0..(mod - 1) : (125 * i) % mod = 1

\* the numerator M = (|d| * 2^s + m) / 1000 of a value modulo mod, a power
\* of two that divides 2^(s - 3): M is known from m alone, as 1000 = 8 * 125
NumeratorMod(m, mod) == (Inverse125(mod) * ((m \div 8) % mod)) % mod

\* the step from a numerator to the nearest multiple of unit, ties to the
\* even multiple: rem is the numerator modulo unit, and odd says that the
\* multiple below it is an odd one
NearestStep(rem, unit, odd) ==
    IF 2 * rem < unit THEN -rem
    ELSE IF 2 * rem > unit THEN unit - rem
    ELSE IF odd THEN rem ELSE -rem

\* x without its bits below 2^-t: unit is 2^(s - t) and numerator is the
\* numerator of x modulo 2 * unit
RoundOff(x, g, m, t, unit, numerator) ==
    [d |-> x.d, s |-> t,
     n |-> g * ((m + 1000 * NearestStep(numerator % unit, unit,
                                         numerator >= unit)) \div unit)]

\* x as a double whose last place is 2^-t
RoundAt(x, g, m, t) ==
    IF t >= x.s THEN x
    ELSE RoundOff(x, g, m, t, Pow2(x.s - t),
                  NumeratorMod(m, Pow2(x.s - t + 1)))

\* the binary exponent of a value m / 2^s thousandths away from a / 1000,
\* whose exponent is e
RoundExponent(a, m, e) == IF IsPowerOfTwo(a, e) /\ m < 0 THEN e - 1 ELSE e

\* the exact value x rounded to the nearest double, ties to even
DoubleRound(x) ==
    IF x.d = 0 THEN x
    ELSE RoundAt(x, DoubleSign(x.d), DoubleSign(x.d) * x.n,
                 52 - RoundExponent(DoubleAbs(x.d), DoubleSign(x.d) * x.n,
                                    Exponent(DoubleAbs(x.d))))

MaxScale(x, y) == IF x.s > y.s THEN x.s ELSE y.s

\* x + y at the scale s of the finer of the two
DoubleSum(x, y, s) ==
    [d |-> x.d + y.d, s |-> s, n |-> Scaled(x.n, s - x.s) + Scaled(y.n, s - y.s)]

\* x + y in doubles (line 527)
DoubleAdd(x, y) == DoubleRound(DoubleSum(x, y, MaxScale(x, y)))

\* x * 100 in doubles (line 538)
DoubleTimes100(x) == DoubleRound([d |-> 100 * x.d, s |-> x.s, n |-> 100 * x.n])

\* Math.round(y): the integer nearest to y, a half going up
MathRound(y) ==
    LET q == (y.d + 500) \div 1000
    IN  IF (y.d + 500) % 1000 = 0 /\ y.n < 0 THEN q - 1 ELSE q

\* the sign of x - y for two doubles: the decimals decide, and between
\* doubles near one decimal the distances to it
DoubleCompare(x, y) ==
    IF x.d # y.d THEN x.d - y.d
    ELSE Scaled(x.n, MaxScale(x, y) - x.s) - Scaled(y.n, MaxScale(x, y) - y.s)

\* newValue >= param.max and newValue <= param.min (lines 529 and 532)
DoubleAtLeast(x, bound) == DoubleCompare(x, Double(bound)) >= 0
DoubleAtMost(x, bound) == DoubleCompare(x, Double(bound)) <= 0

\* Math.round(newValue * 100) / 100 (line 538), in thousandths: the
\* quotient is the double of the decimal
RoundToHundredths(newValue) == 10 * MathRound(DoubleTimes100(newValue))

\* a new parameter (lines 363-368)
NewParameter(name) ==
    [name |-> name, value |-> Milli(1), min |-> Milli(-10), max |-> Milli(10)]

\* animationDirections[name] || 1 (lines 510 and 526)
AnimationDirection(dirs, name) ==
    IF name \in DOMAIN dirs THEN dirs[name] ELSE 1

\* the value of an animated parameter before the bounce (line 527), with
\* the directions the interval's callback holds
AnimationNewValue(param, dirs) ==
    DoubleAdd(Double(param.value),
              Double(AnimationSpeed * AnimationDirection(dirs, param.name)))

\* the updaters handed to setParameters: of the effect (lines 362-370 and
\* 375), of the controls of a parameter (lines 1254, 1271, 1280 and 1288)
\* and of the animation (lines 523-539, with the animatingParams and the
\* animationDirections its closure holds)
AddParameters(newParams) == [kind |-> "add", names |-> newParams]
FilterParameters(usedParams) == [kind |-> "filter", names |-> usedParams]
SetValue(name, newVal) == [kind |-> "value", name |-> name, value |-> newVal]
LowerMin(name) == [kind |-> "min", name |-> name]
RaiseMax(name) == [kind |-> "max", name |-> name]
Animate(animating, dirs) ==
    [kind |-> "animate", animating |-> animating, dirs |-> dirs]

\* the value the animation gives a parameter whose newValue is given
\* (lines 529-538): the bound it has reached or passed, or newValue,
\* rounded to hundredths
BouncedValue(param, newValue) ==
    RoundToHundredths(IF DoubleAtLeast(newValue, param.max)
                      THEN Double(param.max)
                      ELSE IF DoubleAtMost(newValue, param.min)
                      THEN Double(param.min)
                      ELSE newValue)

\* the parameters an updater returns for prev
ApplyParameters(action, prev) ==
    IF action.kind = "add"
    THEN prev \o [i \in 1..Len(action.names) |-> NewParameter(action.names[i])]
    ELSE IF action.kind = "filter"
    THEN SelectSeq(prev, LAMBDA p : p.name \in action.names)
    ELSE IF action.kind = "animate"
    THEN [i \in 1..Len(prev) |->
             IF prev[i].name \notin action.animating THEN prev[i]
             ELSE [prev[i] EXCEPT !.value =
                      BouncedValue(prev[i],
                                   AnimationNewValue(prev[i], action.dirs))]]
    ELSE [i \in 1..Len(prev) |->
             IF prev[i].name # action.name THEN prev[i]
             ELSE IF action.kind = "value"
             THEN [prev[i] EXCEPT !.value = action.value]
             ELSE IF action.kind = "min"
             THEN [prev[i] EXCEPT !.min = @ - Milli(10)]
             ELSE [prev[i] EXCEPT !.max = @ + Milli(10)]]

\* the updates of currentStep: setCurrentStep(0), prev => prev + 1 (lines
\* 147-185) and prev => Math.max(0, prev - 1) (line 196)
ApplyCurrentStep(action, prev) ==
    IF action.kind = "set" THEN action.value
    ELSE IF action.kind = "increment" THEN prev + 1
    ELSE IF prev - 1 > 0 THEN prev - 1 ELSE 0

\* the state an update gives for prev: setState(value), or one of the
\* updaters of currentStep or of parameters
ApplyAction(action, prev) ==
    IF action.kind = "set" THEN action.value
    ELSE IF action.kind \in {"increment", "decrement"}
    THEN ApplyCurrentStep(action, prev)
    ELSE ApplyParameters(action, prev)


(***************************************************************************)
(* React state hooks (useState), as the components use them.  A hook holds *)
(* the state of the render React committed last, which is what the         *)
(* handlers and effects of that render read, and the queue of the updates  *)
(* not rendered yet.  An update made in a handler of a user event has the  *)
(* sync lane: React renders it, and runs the effects of that render,       *)
(* before the event ends.  An update made in an effect, or in the          *)
(* continuation of a timer, has the default lane: React renders it in a    *)
(* later task of its scheduler, and other events may come first.  A render *)
(* of the sync lane skips the updates of the default lane: it keeps a      *)
(* skipped update and every update after it in the queue, together with    *)
(* the state before the first one skipped (base), and the later render     *)
(* applies the queue to that state again.                                  *)
(***************************************************************************)
\* useState(v) after the first render
Hook(v) == [state |-> v, base |-> v, queue |-> <<>>]

\* the setter of the hook is called with an action, in the given lane
SetState(h, lane, action) ==
    [h EXCEPT !.queue = Append(@, [lane |-> lane, action |-> action])]

\* the hook after a render, of the sync lane only (sync) or of all lanes;
\* Apply(action, prev) is the state an action makes of the state prev
RenderHook(h, sync) ==
    LET r[i \in 0..Len(h.queue)] ==
            IF i = 0
            THEN [state |-> h.base, base |-> h.base, queue |-> <<>>]
            ELSE LET p == r[i - 1]
                     u == h.queue[i]
                 IN  IF sync /\ u.lane = "default"
                     THEN [state |-> p.state,
                           base |-> IF p.queue = <<>> THEN p.state ELSE p.base,
                           queue |-> Append(p.queue, u)]
                     ELSE [state |-> ApplyAction(u.action, p.state),
                           base |-> p.base,
                           queue |-> IF p.queue = <<>> THEN <<>>
                                     ELSE Append(p.queue,
                                                 [u EXCEPT !.lane = "rebased"])]
        end == r[Len(h.queue)]
    IN  [state |-> end.state,
         base |-> IF end.queue = <<>> THEN end.state ELSE end.base,
         queue |-> end.queue]

\* the hook after a user event whose handler called its setter with the
\* given actions, in this order: the event ends with the render
AfterEvent(h, actions) ==
    LET set[i \in 0..Len(actions)] ==
            IF i = 0 THEN h ELSE SetState(set[i - 1], "sync", actions[i])
    IN  RenderHook(set[Len(actions)], TRUE)

\* the hook after an effect, a timer or the continuation of an await
\* called its setter with the given actions: outside a user event the
\* updates wait in the queue for a later render
Queued(h, actions) ==
    LET set[i \in 0..Len(actions)] ==
            IF i = 0 THEN h ELSE SetState(set[i - 1], "default", actions[i])
    IN  set[Len(actions)]

\* setState(value)
SetTo(value) == [kind |-> "set", value |-> value]


\* The training controls of the NeuralNetworkDebugger component
\* (src/components/NeuralNetworkDebugger.tsx), for the properties of
\* trainNetwork; they stay as TrainOff says while the DebugEngine alone is
\* exercised.
VARIABLES
    networkConfig,      \* state networkConfig: the sizes, the layers' neurons,
                        \* the optimizer and the epochs
    debugEngine,        \* state debugEngine (a hook): the number of an engine
    engines,            \* every DebugEngine created: the keys its optimizer
                        \* files its layers under, and its optimizer object
    isTraining,         \* state isTraining (a hook)
    isPaused,           \* state isPaused (a hook)
    shouldStopRef,      \* shouldStopRef.current
    isPausedRef,        \* isPausedRef.current
    pausedAtEpochRef,   \* pausedAtEpochRef.current
    trainingLoops,      \* the trainNetwork calls suspended at their await
    events,             \* the number of user events so far
    uiLast              \* the last thing that happened in the component

\* One call of a function of the libraries (matmul, Network.train,
\* Layer.updateWeights, topologicalSort, evaluateAllExpressions), for the
\* properties of these functions; they stay as CallOff says otherwise.
VARIABLES
    fn,                 \* the function called
    args,               \* its arguments
    frame,              \* the object it is called on and its local variables
    ret                 \* its outcome (optional): a returned value or a throw

callVars == <<fn, args, frame, ret>>

\* no library function is called
CallOff ==
    /\ fn = "off"
    /\ args = <<>>
    /\ frame = <<>>
    /\ ret = <<>>

\* The expressions and the parameters of the GraphCalculator component
\* (src/components/GraphCalculator.tsx), for the properties of its
\* parameter effect; they stay as CalcOff says otherwise.
VARIABLES
    calcExpressions,    \* state expressions
    labelCounter,       \* state labelCounter
    parameters,         \* state parameters (a hook)
    animatingParams,    \* state animatingParams
    animationDirections,\* state animationDirections
    calcEvents,         \* the number of events so far
    calcLast            \* the last event

calcVars == <<calcExpressions, labelCounter, parameters, animatingParams,
              animationDirections, calcEvents, calcLast>>

\* the calculator is not modelled
CalcOff ==
    /\ calcExpressions = <<>>
    /\ labelCounter = 0
    /\ parameters = Hook(<<>>)
    /\ animatingParams = {}
    /\ animationDirections = <<>>
    /\ calcEvents = 0
    /\ calcLast = [op |-> "off"]

\* The stepping state of the NeuralNetworkDebugger component
\* (src/components/NeuralNetworkDebugger.tsx, lines 26, 28 and 31), for the
\* properties of its stepping controls; it stays as StepOff says otherwise.
VARIABLES
    currentStep,        \* state currentStep (a hook)
    dataPoints,         \* state dataPoints
    isAutoStepping      \* state isAutoStepping

stepVars == <<currentStep, dataPoints, isAutoStepping>>

\* the component as it is mounted: useState(0), useState([]) and
\* useState(false)
StepOff ==
    /\ currentStep = Hook(0)
    /\ dataPoints = <<>>
    /\ isAutoStepping = FALSE

trainVars == <<networkConfig, debugEngine, engines, isTraining,
               isPaused, shouldStopRef, isPausedRef, pausedAtEpochRef,
               trainingLoops, events, uiLast>>

vars == <<layers, optimizer, stepHistory, currentStepIndex, currentInput,
          currentTarget, forwardActivations, currentLoss, lossGradient,
          networkPrototype, calls, last, since, iter, undoFrom, trainVars,
          callVars, calcVars, stepVars>>

\* the component is not modelled
TrainOff ==
    /\ networkConfig = [optimizer |-> "sgd", epochs |-> 0]
    /\ debugEngine = Hook(0)
    /\ engines = <<>>
    /\ isTraining = Hook(FALSE)
    /\ isPaused = Hook(FALSE)
    /\ shouldStopRef = FALSE
    /\ isPausedRef = FALSE
    /\ pausedAtEpochRef = 0
    /\ trainingLoops = {}
    /\ events = 0
    /\ uiLast = [op |-> "off"]

engineVars == <<layers, optimizer, stepHistory, currentStepIndex, currentInput,
                currentTarget, forwardActivations, currentLoss, lossGradient>>

(***************************************************************************)
(* Optional values.                                                        *)
(***************************************************************************)
None == <<>>
Some(v) == <<v>>
IsDef(o) == o # <<>>
Val(o) == o[1]

(***************************************************************************)
(* Tensor algebra (src/lib/neural-network.ts, lines 9-70).                 *)
(***************************************************************************)
Tensor(r, c, d) == [rows |-> r, cols |-> c, data |-> d]

Scalar(v) == Tensor(1, 1, <<<<v>>>>)

RECURSIVE DotTo(_, _, _, _, _)
\* sum over k in 1..n of a.data[i][k] * b.data[k][j] (the inner loop of matmul)
DotTo(a, b, i, j, n) ==
    IF n = 0 THEN 0
    ELSE DotTo(a, b, i, j, n - 1) + a.data[i][n] * b.data[n][j]

matmul(a, b) ==
    Tensor(a.rows, b.cols,
           [i \in 1..a.rows |-> [j \in 1..b.cols |-> DotTo(a, b, i, j, a.cols)]])

transpose(t) ==
    Tensor(t.cols, t.rows,
           [j \in 1..t.cols |-> [i \in 1..t.rows |-> t.data[i][j]]])

subtract(a, b) ==
    Tensor(a.rows, a.cols,
           [i \in 1..Len(a.data) |->
               [j \in 1..Len(a.data[i]) |-> a.data[i][j] - b.data[i][j]]])

multiplyScalar(t, scalar) ==
    Tensor(t.rows, t.cols,
           [i \in 1..Len(t.data) |->
               [j \in 1..Len(t.data[i]) |-> t.data[i][j] * scalar]])

broadcastAdd(t, vec) ==
    Tensor(t.rows, t.cols,
           [i \in 1..Len(t.data) |->
               [j \in 1..Len(t.data[i]) |-> t.data[i][j] + vec[j]]])

RECURSIVE ColSumTo(_, _, _)
\* sum over i in 1..n of t.data[i][j]
ColSumTo(t, j, n) ==
    IF n = 0 THEN 0 ELSE ColSumTo(t, j, n - 1) + t.data[n][j]

colSum(t) == [j \in 1..t.cols |-> ColSumTo(t, j, t.rows)]

(***************************************************************************)
(* Activation functions (src/lib/activations.ts): ReLU and Linear.         *)
(***************************************************************************)
Max(a, b) == IF a >= b THEN a ELSE b

ActivationForward(type, input) ==
    IF type = "relu"
    THEN Tensor(input.rows, input.cols,
                [i \in 1..Len(input.data) |->
                    [j \in 1..Len(input.data[i]) |-> Max(0, input.data[i][j])]])
    ELSE input

ActivationBackward(type, outputGrad, input) ==
    IF type = "relu"
    THEN Tensor(outputGrad.rows, outputGrad.cols,
                [i \in 1..Len(outputGrad.data) |->
                    [j \in 1..Len(outputGrad.data[i]) |->
                        IF input.data[i][j] > 0 THEN outputGrad.data[i][j] ELSE 0]])
    ELSE outputGrad

(***************************************************************************)
(* Loss function MSE (losses.ts).  Every number of the model is finite,    *)
(* so the isFinite tests of the code all pass; the divisions are exact on  *)
(* the 1 x 1 predictions of the model (count = 1).                         *)
(***************************************************************************)
RECURSIVE SquaredErrorTo(_, _, _)
\* sum of (pred - target)^2 over the first n entries in row-major order
SquaredErrorTo(predictions, targets, n) ==
    IF n = 0 THEN 0
    ELSE LET i == ((n - 1) \div predictions.cols) + 1
             j == ((n - 1) % predictions.cols) + 1
             diff == predictions.data[i][j] - targets.data[i][j]
         IN  SquaredErrorTo(predictions, targets, n - 1) + diff * diff

MSECompute(predictions, targets) ==
    LET count == predictions.rows * predictions.cols
    IN  IF count > 0
        THEN SquaredErrorTo(predictions, targets, count) \div count
        ELSE 0

MSEGradient(predictions, targets) ==
    LET count == predictions.rows * predictions.cols
    IN  Tensor(predictions.rows, predictions.cols,
               [i \in 1..Len(predictions.data) |->
                   [j \in 1..Len(predictions.data[i]) |->
                       (2 * (predictions.data[i][j] - targets.data[i][j])) \div count]])

(***************************************************************************)
(* Optimizers (src/lib/optimizers.ts).                                     *)
(***************************************************************************)
SGDUpdate(weights, gradients, learningRate) ==
    subtract(weights, multiplyScalar(gradients, learningRate))

SGDUpdateBias(bias, gradients, learningRate) ==
    [i \in 1..Len(bias) |-> bias[i] - learningRate * gradients[i]]

\* Optimizer.update and Optimizer.updateBias of the engine's optimizer:
\* the new parameter and the optimizer's state after the call
OptimizerUpdate(opt, weights, gradients, learningRate) ==
    [out |-> SGDUpdate(weights, gradients, learningRate), opt |-> opt]

OptimizerUpdateBias(opt, bias, gradients, learningRate) ==
    [out |-> SGDUpdateBias(bias, gradients, learningRate), opt |-> opt]

\* getOptimizer(type) followed by reset()
NewOptimizer(type) == [type |-> type]

(***************************************************************************)
(* Layer (src/lib/neural-network.ts, lines 72-179).                        *)
(***************************************************************************)
\* new Layer(inputSize, outputSize, activationType) with the weights drawn
NewLayer(inputSize, outputSize, activationType, w) ==
    [weights |-> Tensor(outputSize, inputSize,
                        [i \in 1..outputSize |-> [j \in 1..inputSize |-> w]]),
     bias |-> [i \in 1..outputSize |-> 0],
     activationType |-> activationType,
     lastInput |-> None,
     preActivationOutput |-> None,
     weightGrad |-> None,
     biasGrad |-> None]

\* Layer.forward on a tensor: the layer afterwards, and the value returned
LayerForward(layer, input) ==
    LET output == broadcastAdd(matmul(input, transpose(layer.weights)), layer.bias)
    IN  [layer |-> [layer EXCEPT !.lastInput = Some(input),
                                 !.preActivationOutput = Some(output)],
         out |-> ActivationForward(layer.activationType, output)]

\* Layer.forward(undefined): lastInput is assigned, then matmul reads
\* a.rows of undefined and throws a TypeError
LayerForwardUndefined(layer) == [layer EXCEPT !.lastInput = None]

\* the guard of Layer.backward (line 127)
LayerBackwardThrows(layer) ==
    ~IsDef(layer.lastInput) \/ ~IsDef(layer.preActivationOutput)

\* Layer.backward when it does not throw: the layer afterwards and inputGrad
LayerBackward(layer, outputGrad) ==
    LET activationGrad == ActivationBackward(layer.activationType, outputGrad,
                                             Val(layer.preActivationOutput))
        weightGrad == matmul(transpose(activationGrad), Val(layer.lastInput))
        biasGrad == colSum(activationGrad)
    IN  [layer |-> [layer EXCEPT !.weightGrad = Some(weightGrad),
                                 !.biasGrad = Some(biasGrad)],
         out |-> matmul(activationGrad, layer.weights)]

(***************************************************************************)
(* Network (src/lib/neural-network.ts, lines 189-223).  The layers of a    *)
(* network are numbered from 0 in the code; layer i is ls[i + 1].          *)
(***************************************************************************)
NumLayers == Len(layers)

LayerIndices == 0..(NumLayers - 1)

\* the networks of the model: every layer has one neuron, the hidden layers
\* are relu and the output layer is linear (inputSize = outputSize = 1)
ConfigActivation(i, n) == IF i = n THEN "linear" ELSE "relu"

\* new Network(layerConfigs, 'mse', 1), for each draw of the weights
Networks ==
    UNION {
      { [i \in 1..n |-> NewLayer(1, 1, ConfigActivation(i, n), ws[i])] :
            ws \in [1..n -> InitWeights] } : n \in LayerCounts }

RECURSIVE NetworkForwardFrom(_, _, _)
\* Network.forward: layers i.., in order; the layers afterwards and the
\* outputs of the layers (the last one is the value returned)
NetworkForwardFrom(ls, i, input) ==
    IF i > Len(ls) THEN [layers |-> ls, outs |-> <<>>]
    ELSE LET f == LayerForward(ls[i], input)
             rest == NetworkForwardFrom([ls EXCEPT ![i] = f.layer], i + 1, f.out)
         IN  [layers |-> rest.layers, outs |-> <<f.out>> \o rest.outs]

NetworkForward(ls, input) == NetworkForwardFrom(ls, 1, input)

RECURSIVE NetworkBackwardFrom(_, _, _)
\* Network.backward: layers i, i-1, .., 1; stops where Layer.backward throws
NetworkBackwardFrom(ls, i, grad) ==
    IF i = 0 THEN [layers |-> ls, threw |-> FALSE]
    ELSE IF LayerBackwardThrows(ls[i]) THEN [layers |-> ls, threw |-> TRUE]
    ELSE LET b == LayerBackward(ls[i], grad)
         IN  NetworkBackwardFrom([ls EXCEPT ![i] = b.layer], i - 1, b.out)

NetworkBackward(ls, grad) == NetworkBackwardFrom(ls, Len(ls), grad)

\* the methods class Network defines (neural-network.ts, lines 189-282)
NetworkMethods ==
    {"forward", "backward", "train", "predict", "predict1D", "predict2D"}

\* the methods debug-engine.ts calls on its network (lines 69, 70, 121, 149
\* and 200) that class Network does not define
DebugMethods == {"forwardLayer", "getState", "getGradients"}

\* this.network[m] is a function; calling it throws a TypeError otherwise
HasMethod(m) == m \in networkPrototype

\* Network.forwardLayer(layerIndex, input), called at debug-engine.ts:149
\* and :200: layer layerIndex runs Layer.forward on the input; the layers
\* afterwards and the value returned
NetworkForwardLayer(ls, layerIndex, input) ==
    LET f == LayerForward(ls[layerIndex + 1], input)
    IN  [layers |-> [ls EXCEPT ![layerIndex + 1] = f.layer], out |-> f.out]

\* Network.forwardLayer(layerIndex, undefined): Layer.forward throws
NetworkForwardLayerUndefined(ls, layerIndex) ==
    [ls EXCEPT ![layerIndex + 1] = LayerForwardUndefined(@)]

\* Network.getState(): a copy of every layer's weights and bias
NetworkGetState(ls) ==
    [weights |-> [i \in 1..Len(ls) |-> ls[i].weights],
     biases |-> [i \in 1..Len(ls) |-> ls[i].bias]]

(***************************************************************************)
(* JavaScript arrays: a[i] = v beyond the end leaves holes (undefined).    *)
(***************************************************************************)
ArraySet(arr, i, v) ==
    [k \in 1..Max(Len(arr), i + 1) |->
        IF k = i + 1 THEN Some(v) ELSE IF k <= Len(arr) THEN arr[k] ELSE None]

\* arr[i], undefined outside the array (also arr[-1])
ArrayGet(arr, i) == IF i >= 0 /\ i < Len(arr) THEN arr[i + 1] ELSE None

(***************************************************************************)
(* DebugEngine (src/lib/debug-engine.ts): snapshots.                       *)
(*                                                                         *)
(* getCurrentState stores the forwardActivations array object itself in    *)
(* the state it returns (line 73; arrays are reference values).  setData   *)
(* is the only place that creates a new array object, and it discards      *)
(* every snapshot, so every snapshot that has activations refers to the    *)
(* one array object that this.forwardActivations refers to: the field is   *)
(* ActivationsRef, and reading it reads the variable forwardActivations.   *)
(* The computation detail and the timestamp of a snapshot are display data *)
(* and are left out, except for the operation's name.                      *)
(***************************************************************************)
ActivationsRef == "this.forwardActivations"

\* getCurrentState() (lines 67-76) throws a TypeError at this.network.getState
\* or at this.network.getGradients
GetCurrentStateThrows == ~HasMethod("getState") \/ ~HasMethod("getGradients")

GetCurrentState(ls, fa) ==
    [weights |-> NetworkGetState(ls).weights,
     biases |-> NetworkGetState(ls).biases,
     activations |-> IF Len(fa) > 0 THEN Some(ActivationsRef) ELSE None]

\* a snapshot numbered by the count of snapshots, from one
NewSnapshotNumberedFromOne(stepType, layerIndex, operation, ls, fa, index) ==
    [stepType |-> stepType,
     layerIndex |-> layerIndex,
     networkState |-> GetCurrentState(ls, fa),
     operation |-> operation,
     stepNumber |-> index + 2]

NewSnapshot(stepType, layerIndex, operation, ls, fa, index) ==
    [stepType |-> stepType,
     layerIndex |-> layerIndex,
     networkState |-> GetCurrentState(ls, fa),
     operation |-> operation,
     stepNumber |-> index + 1]

\* Array.prototype.slice(0, end) for end >= 0
Slice(arr, end) == SubSeq(arr, 1, IF end < Len(arr) THEN end ELSE Len(arr))

\* a push that does not slice the history first
PushSnapshotNoSlice(history, index, snapshot) == Append(history, snapshot)

\* this.currentStepIndex++; this.stepHistory = this.stepHistory.slice(0,
\* this.currentStepIndex); this.stepHistory.push(snapshot): the new history
PushSnapshot(history, index, snapshot) ==
    Append(Slice(history, index + 1), snapshot)

\* a getStepHistory() that stops before the current snapshot
GetStepHistoryBeforeCurrent == Slice(stepHistory, currentStepIndex)

\* getStepHistory()
GetStepHistory == Slice(stepHistory, currentStepIndex + 1)

\* the activations a stored snapshot shows when it is read
SnapshotActivations(snapshot) ==
    IF IsDef(snapshot.networkState.activations)
    THEN Some(forwardActivations)
    ELSE None

\* a restoreState that installs the weights and leaves the biases
RestoreStateWeightsOnly(ls, fa, snapshot) ==
    [layers |-> [i \in 1..Len(ls) |->
                    [ls[i] EXCEPT !.weights = snapshot.networkState.weights[i]]],
     forwardActivations |-> fa]

\* a restoreState that also drops the layers' cached gradients
RestoreStateClearsGradients(ls, fa, snapshot) ==
    [layers |-> [i \in 1..Len(ls) |->
                    [ls[i] EXCEPT !.weights = snapshot.networkState.weights[i],
                                  !.bias = snapshot.networkState.biases[i],
                                  !.weightGrad = None,
                                  !.biasGrad = None]],
     forwardActivations |-> fa]

\* restoreState(snapshot): the layers and the activation array afterwards
RestoreState(ls, fa, snapshot) ==
    [layers |-> [i \in 1..Len(ls) |->
                    [ls[i] EXCEPT !.weights = snapshot.networkState.weights[i],
                                  !.bias = snapshot.networkState.biases[i]]],
     forwardActivations |-> fa]

(***************************************************************************)
(* Bookkeeping of the calls, for the properties: `last' is the last call   *)
(* and its outcome; `since' is what has executed since the last setData;   *)
(* `iter' counts the steps of a stepped training iteration taken in order  *)
(* (pos steps taken, the first when the visible history had base entries;  *)
(* pos = 0: none under way); `undoFrom' is the step index and the live     *)
(* weights and biases before the last call when that call was an undo()    *)
(* that returned true, and still (redone) when the call after that undo()  *)
(* was a redo().                                                           *)
(***************************************************************************)
\* the operations that append snapshots
StepOps ==
    {"stepForwardLayer", "stepComputeLoss", "stepBackwardLossGradient",
     "stepBackwardLayer", "stepBackwardComplete", "stepUpdateWeights"}

\* the record of a call made in the current state: first tells that the
\* call before it was setData, cut is the number of stored snapshots
\* beyond the current index when a step succeeds, and before is the live
\* weights and biases a successful stepUpdateWeights started from
Call(op, arg, result, error) ==
    [op |-> op, arg |-> arg, result |-> result, error |-> error,
     first |-> last.op = "setData",
     cut |-> IF op \in StepOps /\ result = "ok"
             THEN Len(stepHistory) - (currentStepIndex + 1)
             ELSE 0,
     before |-> IF op = "stepUpdateWeights" /\ result = "ok"
                THEN Some(NetworkGetState(layers))
                ELSE None]

NoIter == [pos |-> 0, base |-> 0]

SinceNothing ==
    [loss |-> FALSE, lossGrad |-> FALSE, backward |-> {}, trained |-> FALSE]

\* iter after a step that is the step number pos + 1 of the iteration
\* when `expected', and breaks the iteration off otherwise
IterNext(expected, n) ==
    IF expected THEN [iter EXCEPT !.pos = @ + n] ELSE NoIter

\* a call that throws and leaves the engine as it was
Throws(op, arg, error) ==
    /\ last' = Call(op, arg, "throw", error)
    /\ undoFrom' = None
    /\ UNCHANGED <<engineVars, since, iter>>

(***************************************************************************)
(* A DebugEngine just constructed (lines 17-44) on a Network that has the  *)
(* methods of one of `prototypes'.                                         *)
(***************************************************************************)
EngineInit(prototypes) ==
    /\ networkPrototype \in prototypes
    /\ layers \in Networks
    /\ optimizer = NewOptimizer("sgd")
    /\ stepHistory = <<>>
    /\ currentStepIndex = -1
    /\ currentInput = None
    /\ currentTarget = None
    /\ forwardActivations = <<>>
    /\ currentLoss = None
    /\ lossGradient = None
    /\ calls = 0
    /\ last = [op |-> "constructor", arg |-> -1, result |-> "ok", error |-> "",
               first |-> FALSE, cut |-> 0, before |-> None]
    /\ since = SinceNothing
    /\ iter = NoIter
    /\ undoFrom = None
    /\ TrainOff
    /\ CallOff
    /\ CalcOff
    /\ StepOff

\* the engine on the Network of neural-network.ts
Init == EngineInit({NetworkMethods})

\* the engine on the Network of neural-network.ts, or on one that also has
\* the methods debug-engine.ts calls
SteppingInit == EngineInit({NetworkMethods, NetworkMethods \cup DebugMethods})

\* a setData that leaves this.lossGradient as it is
SetDataKeepsLossGradient == lossGradient

\* what setData leaves in this.lossGradient (line 62)
SetDataLossGradient == None

\* a setData that leaves the activation cache as it is
SetDataKeepsForwardActivations == forwardActivations

\* what setData leaves in this.forwardActivations (line 60)
SetDataForwardActivations == <<>>

\* the assignments of setData(input, target), lines 57-65
SetDataAssignments(x, y) ==
    /\ currentInput' = Some(Scalar(x))
    /\ currentTarget' = Some(Scalar(y))
    /\ forwardActivations' = SetDataForwardActivations
    /\ currentLoss' = None
    /\ lossGradient' = SetDataLossGradient
    /\ stepHistory' = <<>>
    /\ currentStepIndex' = -1
    /\ UNCHANGED optimizer
    /\ last' = Call("setData", -1, "ok", "")
    /\ since' = SinceNothing
    /\ iter' = NoIter
    /\ undoFrom' = None

\* setData(input, target): the network is left as it is
SetData(x, y) ==
    /\ SetDataAssignments(x, y)
    /\ UNCHANGED layers

\* the input stepForwardLayer(layerIndex) gives to the layer (line 148)
ForwardInput(layerIndex) ==
    IF layerIndex = 0 THEN currentInput
    ELSE ArrayGet(forwardActivations, layerIndex - 1)

\* stepForwardLayer(layerIndex), lines 143-188
StepForwardLayer(layerIndex) ==
    IF ~IsDef(currentInput)
    THEN Throws("stepForwardLayer", layerIndex, "No input data set")
    ELSE IF ~HasMethod("forwardLayer")
    THEN Throws("stepForwardLayer", layerIndex, "TypeError")
    ELSE IF ~IsDef(ForwardInput(layerIndex))
    THEN \* network.forwardLayer(layerIndex, undefined)
         /\ layers' = NetworkForwardLayerUndefined(layers, layerIndex)
         /\ last' = Call("stepForwardLayer", layerIndex, "throw", "TypeError")
         /\ undoFrom' = None
         /\ UNCHANGED <<optimizer, stepHistory, currentStepIndex, currentInput,
                        currentTarget, forwardActivations, currentLoss,
                        lossGradient, since, iter>>
    ELSE LET f == NetworkForwardLayer(layers, layerIndex,
                                      Val(ForwardInput(layerIndex)))
             ls == f.layers
             fa == ArraySet(forwardActivations, layerIndex, f.out)
             snapshot == NewSnapshot("forward", Some(layerIndex), "forward",
                                     ls, fa, currentStepIndex)
         IN  /\ layers' = ls
             /\ forwardActivations' = fa
             /\ UNCHANGED <<optimizer, currentInput, currentTarget, currentLoss,
                            lossGradient>>
             /\ undoFrom' = None
             /\ IF GetCurrentStateThrows
                THEN /\ UNCHANGED <<stepHistory, currentStepIndex, since, iter>>
                     /\ last' = Call("stepForwardLayer", layerIndex, "throw",
                                     "TypeError")
                ELSE /\ stepHistory' = PushSnapshot(stepHistory, currentStepIndex,
                                                    snapshot)
                     /\ currentStepIndex' = currentStepIndex + 1
                     /\ last' = Call("stepForwardLayer", layerIndex, "ok", "")
                     /\ since' = [since EXCEPT !.trained = FALSE]
                     /\ iter' = IF layerIndex = 0
                                THEN [pos |-> 1, base |-> currentStepIndex + 1]
                                ELSE IterNext(iter.pos = layerIndex, 1)

\* stepForwardActivation(layerIndex), lines 112-140: the layer runs forward
\* on the input, the activation is stored when the cache holds none for the
\* layer, and no snapshot is appended
StepForwardActivation(layerIndex) ==
    IF ~IsDef(currentInput)
    THEN Throws("stepForwardActivation", layerIndex, "No input data set")
    ELSE IF ~HasMethod("forwardLayer")
    THEN Throws("stepForwardActivation", layerIndex, "TypeError")
    ELSE IF ~IsDef(ForwardInput(layerIndex))
    THEN \* network.forwardLayer(layerIndex, undefined)
         /\ layers' = NetworkForwardLayerUndefined(layers, layerIndex)
         /\ last' = Call("stepForwardActivation", layerIndex, "throw", "TypeError")
         /\ undoFrom' = None
         /\ UNCHANGED <<optimizer, stepHistory, currentStepIndex, currentInput,
                        currentTarget, forwardActivations, currentLoss,
                        lossGradient, since, iter>>
    ELSE LET f == NetworkForwardLayer(layers, layerIndex,
                                      Val(ForwardInput(layerIndex)))
         IN  /\ layers' = f.layers
             /\ forwardActivations' =
                   IF ~IsDef(ArrayGet(forwardActivations, layerIndex))
                   THEN ArraySet(forwardActivations, layerIndex, f.out)
                   ELSE forwardActivations
             /\ UNCHANGED <<optimizer, stepHistory, currentStepIndex,
                            currentInput, currentTarget, currentLoss,
                            lossGradient>>
             /\ last' = Call("stepForwardActivation", layerIndex, "ok", "")
             /\ UNCHANGED since
             /\ iter' = NoIter
             /\ undoFrom' = None

RECURSIVE CompleteForwardFrom(_, _, _, _)
\* the loop of lines 199-202 from layer i on (0-based)
CompleteForwardFrom(ls, fa, i, current) ==
    IF i >= Len(ls) THEN [layers |-> ls, forwardActivations |-> fa]
    ELSE LET f == NetworkForwardLayer(ls, i, current)
         IN  CompleteForwardFrom(f.layers, ArraySet(fa, i, f.out), i + 1, f.out)

\* the forward pass stepComputeLoss runs when the activations are incomplete
\* (lines 197-203): the layers and the activation array afterwards
CompleteForward(ls, fa, input) ==
    IF Len(fa) < Len(ls)
    THEN CompleteForwardFrom(ls, fa, 0, input)
    ELSE [layers |-> ls, forwardActivations |-> fa]

\* stepComputeLoss(), lines 191-234
StepComputeLoss ==
    IF ~IsDef(currentInput) \/ ~IsDef(currentTarget)
    THEN Throws("stepComputeLoss", -1, "Input and target data must be set")
    ELSE IF Len(forwardActivations) < NumLayers /\ ~HasMethod("forwardLayer")
    THEN Throws("stepComputeLoss", -1, "TypeError")
    ELSE LET c == CompleteForward(layers, forwardActivations, Val(currentInput))
             fa == c.forwardActivations
             predictions == Val(ArrayGet(fa, Len(fa) - 1))
             loss == MSECompute(predictions, Val(currentTarget))
             snapshot == NewSnapshot("loss", None, "loss", c.layers, fa,
                                     currentStepIndex)
         IN  /\ layers' = c.layers
             /\ forwardActivations' = fa
             /\ currentLoss' = Some(loss)
             /\ UNCHANGED <<optimizer, currentInput, currentTarget, lossGradient>>
             /\ undoFrom' = None
             /\ IF GetCurrentStateThrows
                THEN /\ UNCHANGED <<stepHistory, currentStepIndex, since, iter>>
                     /\ last' = Call("stepComputeLoss", -1, "throw", "TypeError")
                ELSE /\ stepHistory' = PushSnapshot(stepHistory, currentStepIndex,
                                                    snapshot)
                     /\ currentStepIndex' = currentStepIndex + 1
                     /\ last' = Call("stepComputeLoss", -1, "ok", "")
                     /\ since' = [since EXCEPT !.loss = TRUE, !.trained = FALSE]
                     /\ iter' = IterNext(iter.pos = NumLayers, 1)

\* the guard of stepBackwardLossGradient (line 238)
LossGradientGuardThrows == ~IsDef(currentTarget) \/ ~IsDef(currentLoss)

\* the predictions stepBackwardLossGradient reads (line 242): undefined
\* when the activation array is empty
LossGradientPredictions ==
    ArrayGet(forwardActivations, Len(forwardActivations) - 1)

\* the error stepBackwardLossGradient throws in this state, "" when none
LossGradientError ==
    IF LossGradientGuardThrows THEN "Must compute loss first"
    ELSE IF ~IsDef(LossGradientPredictions) THEN "TypeError"
    ELSE ""

\* stepBackwardLossGradient() when it does not throw: the fields it changes
LossGradientStep(history, index) ==
    LET grad == MSEGradient(Val(LossGradientPredictions), Val(currentTarget))
        snapshot == NewSnapshot("backward", None, "loss_gradient", layers,
                                forwardActivations, index)
    IN  [lossGradient |-> Some(grad),
         stepHistory |-> PushSnapshot(history, index, snapshot),
         currentStepIndex |-> index + 1]

\* stepBackwardLossGradient(), lines 237-271
StepBackwardLossGradient ==
    IF LossGradientError # ""
    THEN Throws("stepBackwardLossGradient", -1, LossGradientError)
    ELSE LET g == LossGradientStep(stepHistory, currentStepIndex)
         IN  /\ lossGradient' = g.lossGradient
             /\ UNCHANGED <<layers, optimizer, currentInput, currentTarget,
                            forwardActivations, currentLoss>>
             /\ undoFrom' = None
             /\ IF GetCurrentStateThrows
                THEN /\ UNCHANGED <<stepHistory, currentStepIndex, since, iter>>
                     /\ last' = Call("stepBackwardLossGradient", -1, "throw",
                                     "TypeError")
                ELSE /\ stepHistory' = g.stepHistory
                     /\ currentStepIndex' = g.currentStepIndex
                     /\ last' = Call("stepBackwardLossGradient", -1, "ok", "")
                     /\ since' = [since EXCEPT !.lossGrad = TRUE,
                                               !.trained = FALSE]
                     /\ iter' = IterNext(iter.pos = NumLayers + 1, 1)

\* the error stepBackwardLayer(layerIndex) throws in this state, "" when none
\* (lines 275-292)
BackwardLayerError(layerIndex) ==
    IF ~IsDef(lossGradient) THEN "Must compute loss gradient first"
    ELSE IF layerIndex # NumLayers - 1
    THEN "Backward pass must be done in reverse order"
    ELSE IF LayerBackwardThrows(layers[layerIndex + 1])
    THEN "Forward pass must be called before backward"
    ELSE ""

\* stepBackwardLayer(layerIndex), lines 274-323
StepBackwardLayer(layerIndex) ==
    IF BackwardLayerError(layerIndex) # ""
    THEN Throws("stepBackwardLayer", layerIndex, BackwardLayerError(layerIndex))
    ELSE LET b == LayerBackward(layers[layerIndex + 1], Val(lossGradient))
             ls == [layers EXCEPT ![layerIndex + 1] = b.layer]
             snapshot == NewSnapshot("backward", Some(layerIndex), "backward",
                                     ls, forwardActivations, currentStepIndex)
         IN  /\ layers' = ls
             /\ UNCHANGED <<optimizer, currentInput, currentTarget,
                            forwardActivations, currentLoss, lossGradient>>
             /\ undoFrom' = None
             /\ IF GetCurrentStateThrows
                THEN /\ UNCHANGED <<stepHistory, currentStepIndex, since, iter>>
                     /\ last' = Call("stepBackwardLayer", layerIndex, "throw",
                                     "TypeError")
                ELSE /\ stepHistory' = PushSnapshot(stepHistory, currentStepIndex,
                                                    snapshot)
                     /\ currentStepIndex' = currentStepIndex + 1
                     /\ last' = Call("stepBackwardLayer", layerIndex, "ok", "")
                     /\ since' = [since EXCEPT !.backward = @ \cup {layerIndex},
                                               !.trained = FALSE]
                     /\ iter' = IterNext(iter.pos = NumLayers + 2, 1)

RECURSIVE BackwardCompleteFrom(_, _, _)
\* the loop of stepBackwardComplete (lines 336-367) from layer i down (0-based;
\* i = -1 ends it): st holds the layers, the history, the index, the layers
\* done so far and whether Layer.backward threw
BackwardCompleteFrom(st, i, grad) ==
    IF i < 0 THEN st
    ELSE IF LayerBackwardThrows(st.layers[i + 1]) THEN [st EXCEPT !.threw = TRUE]
    ELSE LET b == LayerBackward(st.layers[i + 1], grad)
             ls == [st.layers EXCEPT ![i + 1] = b.layer]
             snapshot == NewSnapshot("backward", Some(i), "backward", ls,
                                     forwardActivations, st.currentStepIndex)
         IN  BackwardCompleteFrom(
                 [layers |-> ls,
                  stepHistory |-> PushSnapshot(st.stepHistory, st.currentStepIndex,
                                               snapshot),
                  currentStepIndex |-> st.currentStepIndex + 1,
                  done |-> st.done \cup {i},
                  threw |-> FALSE],
                 i - 1, b.out)

\* stepBackwardComplete(), lines 326-370
StepBackwardComplete ==
    IF ~IsDef(lossGradient) /\ LossGradientError # ""
    THEN Throws("stepBackwardComplete", -1, LossGradientError)
    ELSE IF GetCurrentStateThrows
    THEN \* the first snapshot to be taken throws: that of the loss gradient
         \* (line 330), or that of the last layer (line 347) after its
         \* backward pass
         IF ~IsDef(lossGradient)
         THEN /\ lossGradient' =
                    LossGradientStep(stepHistory, currentStepIndex).lossGradient
              /\ last' = Call("stepBackwardComplete", -1, "throw", "TypeError")
              /\ undoFrom' = None
              /\ UNCHANGED <<layers, optimizer, stepHistory, currentStepIndex,
                             currentInput, currentTarget, forwardActivations,
                             currentLoss, since, iter>>
         ELSE IF LayerBackwardThrows(layers[NumLayers])
         THEN Throws("stepBackwardComplete", -1,
                     "Forward pass must be called before backward")
         ELSE /\ layers' = [layers EXCEPT ![NumLayers] =
                               LayerBackward(@, Val(lossGradient)).layer]
              /\ last' = Call("stepBackwardComplete", -1, "throw", "TypeError")
              /\ undoFrom' = None
              /\ UNCHANGED <<optimizer, stepHistory, currentStepIndex,
                             currentInput, currentTarget, forwardActivations,
                             currentLoss, lossGradient, since, iter>>
    ELSE LET first == ~IsDef(lossGradient)
             g == IF first
                  THEN LossGradientStep(stepHistory, currentStepIndex)
                  ELSE [lossGradient |-> lossGradient,
                        stepHistory |-> stepHistory,
                        currentStepIndex |-> currentStepIndex]
             st == BackwardCompleteFrom(
                       [layers |-> layers,
                        stepHistory |-> g.stepHistory,
                        currentStepIndex |-> g.currentStepIndex,
                        done |-> {},
                        threw |-> FALSE],
                       NumLayers - 1, Val(g.lossGradient))
         IN  /\ layers' = st.layers
             /\ lossGradient' = g.lossGradient
             /\ stepHistory' = st.stepHistory
             /\ currentStepIndex' = st.currentStepIndex
             /\ UNCHANGED <<optimizer, currentInput, currentTarget,
                            forwardActivations, currentLoss>>
             /\ last' = IF st.threw
                        THEN Call("stepBackwardComplete", -1, "throw",
                                  "Forward pass must be called before backward")
                        ELSE Call("stepBackwardComplete", -1, "ok", "")
             /\ since' = [since EXCEPT
                            !.lossGrad = @ \/ first,
                            !.backward = @ \cup st.done,
                            !.trained = IF st.currentStepIndex # currentStepIndex
                                        THEN FALSE ELSE @]
             /\ iter' = IF st.threw /\ st.currentStepIndex = currentStepIndex
                        THEN iter
                        ELSE IF first
                        THEN IterNext(~st.threw /\ iter.pos = NumLayers + 1,
                                      NumLayers + 1)
                        ELSE IterNext(~st.threw /\ iter.pos = NumLayers + 2,
                                      NumLayers)
             /\ undoFrom' = None

RECURSIVE UpdateLayersFrom(_, _, _, _)
\* the loop of stepUpdateWeights (lines 376-405) from layer i on (ls[i]):
\* stops, with the layers before it already updated, at a layer that has no
\* gradients
UpdateLayersFrom(ls, opt, i, learningRate) ==
    IF i > Len(ls) THEN [layers |-> ls, opt |-> opt, threw |-> FALSE]
    ELSE IF ~IsDef(ls[i].weightGrad) \/ ~IsDef(ls[i].biasGrad)
    THEN [layers |-> ls, opt |-> opt, threw |-> TRUE]
    ELSE LET w == OptimizerUpdate(opt, ls[i].weights, Val(ls[i].weightGrad),
                                  learningRate)
             b == OptimizerUpdateBias(w.opt, ls[i].bias, Val(ls[i].biasGrad),
                                      learningRate)
         IN  UpdateLayersFrom(
                 [ls EXCEPT ![i] = [@ EXCEPT !.weights = w.out, !.bias = b.out]],
                 b.opt, i + 1, learningRate)

\* stepUpdateWeights(learningRate), lines 373-431
StepUpdateWeights(learningRate) ==
    LET u == UpdateLayersFrom(layers, optimizer, 1, learningRate)
        snapshot == NewSnapshot("update", None, "update", u.layers,
                                forwardActivations, currentStepIndex)
    IN  /\ layers' = u.layers
        /\ optimizer' = u.opt
        /\ UNCHANGED <<currentInput, currentTarget, forwardActivations,
                       currentLoss, lossGradient>>
        /\ undoFrom' = None
        /\ IF u.threw
           THEN /\ UNCHANGED <<stepHistory, currentStepIndex, since, iter>>
                /\ last' = Call("stepUpdateWeights", -1, "throw",
                                "Gradients must be computed before weight update")
           ELSE IF GetCurrentStateThrows
           THEN /\ UNCHANGED <<stepHistory, currentStepIndex, since, iter>>
                /\ last' = Call("stepUpdateWeights", -1, "throw", "TypeError")
           ELSE /\ stepHistory' = PushSnapshot(stepHistory, currentStepIndex, snapshot)
                /\ currentStepIndex' = currentStepIndex + 1
                /\ last' = Call("stepUpdateWeights", -1, "ok", "")
                /\ since' = [since EXCEPT !.trained = FALSE]
                /\ iter' = IterNext(iter.pos = 2 * NumLayers + 2, 1)

\* an undo() that also refuses at step index 1
UndoReturnsFalseAtOne == currentStepIndex <= 1

\* the test of undo() (line 435)
UndoReturnsFalse == currentStepIndex <= 0

\* undo(), lines 434-441
Undo ==
    IF UndoReturnsFalse
    THEN /\ last' = Call("undo", -1, "false", "")
         /\ undoFrom' = None
         /\ UNCHANGED <<engineVars, since, iter>>
    ELSE LET r == RestoreState(layers, forwardActivations,
                               stepHistory[(currentStepIndex - 1) + 1])
         IN  /\ currentStepIndex' = currentStepIndex - 1
             /\ layers' = r.layers
             /\ forwardActivations' = r.forwardActivations
             /\ UNCHANGED <<optimizer, stepHistory, currentInput, currentTarget,
                            currentLoss, lossGradient>>
             /\ last' = Call("undo", -1, "true", "")
             /\ undoFrom' = Some([currentStepIndex |-> currentStepIndex,
                                  state |-> NetworkGetState(layers),
                                  trained |-> since.trained,
                                  redone |-> FALSE])
             /\ since' = [since EXCEPT !.trained = FALSE]
             /\ iter' = NoIter

\* the test of redo() (line 445)
RedoReturnsFalse == currentStepIndex >= Len(stepHistory) - 1

\* redo(), lines 444-451
Redo ==
    IF RedoReturnsFalse
    THEN /\ last' = Call("redo", -1, "false", "")
         /\ undoFrom' = None
         /\ UNCHANGED <<engineVars, since, iter>>
    ELSE LET r == RestoreState(layers, forwardActivations,
                               stepHistory[(currentStepIndex + 1) + 1])
         IN  /\ currentStepIndex' = currentStepIndex + 1
             /\ layers' = r.layers
             /\ forwardActivations' = r.forwardActivations
             /\ UNCHANGED <<optimizer, stepHistory, currentInput, currentTarget,
                            currentLoss, lossGradient>>
             /\ last' = Call("redo", -1, "true", "")
             /\ undoFrom' = IF IsDef(undoFrom) /\ ~Val(undoFrom).redone
                            THEN Some([Val(undoFrom) EXCEPT !.redone = TRUE])
                            ELSE None
             /\ since' = [since EXCEPT !.trained = FALSE]
             /\ iter' = NoIter

RECURSIVE TrainUpdateFrom(_, _, _, _)
\* the loop of trainOneEpoch (lines 539-544): a layer without gradients is
\* skipped
TrainUpdateFrom(ls, opt, i, learningRate) ==
    IF i > Len(ls) THEN [layers |-> ls, opt |-> opt]
    ELSE IF IsDef(ls[i].weightGrad) /\ IsDef(ls[i].biasGrad)
    THEN LET w == OptimizerUpdate(opt, ls[i].weights, Val(ls[i].weightGrad),
                                  learningRate)
             b == OptimizerUpdateBias(w.opt, ls[i].bias, Val(ls[i].biasGrad),
                                      learningRate)
         IN  TrainUpdateFrom(
                 [ls EXCEPT ![i] = [@ EXCEPT !.weights = w.out, !.bias = b.out]],
                 b.opt, i + 1, learningRate)
    ELSE TrainUpdateFrom(ls, opt, i + 1, learningRate)

\* a trainOneEpoch that also stores the outputs of its forward pass in the
\* activation cache
TrainOneEpochCachesActivations(x, y, learningRate) ==
    LET f == NetworkForward(layers, Scalar(x))
        predictions == f.outs[Len(f.outs)]
        b == NetworkBackward(f.layers, MSEGradient(predictions, Scalar(y)))
        u == TrainUpdateFrom(b.layers, optimizer, 1, learningRate)
    IN  /\ layers' = u.layers
        /\ optimizer' = u.opt
        /\ currentLoss' = Some(MSECompute(predictions, Scalar(y)))
        /\ forwardActivations' = [i \in 1..Len(f.outs) |-> Some(f.outs[i])]
        /\ UNCHANGED <<stepHistory, currentStepIndex, currentInput, currentTarget,
                       lossGradient>>
        /\ last' = Call("trainOneEpoch", -1, "ok", "")
        /\ since' = [since EXCEPT !.trained = TRUE]
        /\ iter' = NoIter
        /\ undoFrom' = None

\* trainOneEpoch(input, target, learningRate), lines 526-547
TrainOneEpoch(x, y, learningRate) ==
    LET f == NetworkForward(layers, Scalar(x))
        predictions == f.outs[Len(f.outs)]
        loss == MSECompute(predictions, Scalar(y))
        grad == MSEGradient(predictions, Scalar(y))
        b == NetworkBackward(f.layers, grad)
        u == TrainUpdateFrom(b.layers, optimizer, 1, learningRate)
    IN  /\ layers' = u.layers
        /\ optimizer' = u.opt
        /\ currentLoss' = Some(loss)
        /\ UNCHANGED <<stepHistory, currentStepIndex, currentInput, currentTarget,
                       forwardActivations, lossGradient>>
        /\ last' = Call("trainOneEpoch", -1, "ok", "")
        /\ since' = [since EXCEPT !.trained = TRUE]
        /\ iter' = NoIter
        /\ undoFrom' = None

\* one more call is made on the engine
Tick ==
    /\ calls < MaxCalls
    /\ calls' = calls + 1
    /\ UNCHANGED <<networkPrototype, trainVars, callVars, calcVars, stepVars>>

Next ==
    \/ \E x \in Xs, y \in Ys : Tick /\ SetData(x, y)
    \/ \E i \in LayerIndices : Tick /\ StepForwardLayer(i)
    \/ \E i \in LayerIndices : Tick /\ StepForwardActivation(i)
    \/ Tick /\ StepComputeLoss
    \/ Tick /\ StepBackwardLossGradient
    \/ \E i \in LayerIndices : Tick /\ StepBackwardLayer(i)
    \/ Tick /\ StepBackwardComplete
    \/ \E lr \in LearningRates : Tick /\ StepUpdateWeights(lr)
    \/ Tick /\ Undo
    \/ Tick /\ Redo
    \/ \E x \in Xs, y \in Ys, lr \in LearningRates : Tick /\ TrainOneEpoch(x, y, lr)

Spec == Init /\ [][Next]_vars

SteppingSpec == SteppingInit /\ [][Next]_vars

(***************************************************************************)
(* Properties of the DebugEngine.                                          *)
(***************************************************************************)
\* the weights and biases of the live network
LiveState == NetworkGetState(layers)

\* the weights, biases and activations the snapshot stored at position k
\* (from 1) shows when it is read
RecordedState(k) ==
    [weights |-> stepHistory[k].networkState.weights,
     biases |-> stepHistory[k].networkState.biases,
     activations |-> SnapshotActivations(stepHistory[k])]

\* every layer's cached gradients
CachedGradients ==
    [i \in 1..NumLayers |-> <<layers[i].weightGrad, layers[i].biasGrad>>]

\* C1: after setData followed by exactly one stepForwardLayer(0),
\* getStepHistory() has length 1, and a following undo() returns true and
\* leaves getStepHistory() empty.
C1_UndoAfterFirstStep ==
    [][/\ (/\ last.op = "setData"
           /\ last'.op = "stepForwardLayer" /\ last'.arg = 0)
          => (/\ last'.result = "ok"
              /\ Len(GetStepHistory') = 1)
       /\ (/\ last.op = "stepForwardLayer" /\ last.arg = 0
           /\ last.result = "ok" /\ last.first
           /\ last'.op = "undo")
          => (/\ Len(GetStepHistory) = 1
              /\ last'.result = "true"
              /\ Len(GetStepHistory') = 0)]_vars

\* C2: once a snapshot has been appended, the weights, biases and
\* activations it records are changed by no later operation of the engine
\* (step, undo, redo, trainOneEpoch) until setData discards the history.
\* (A successful step keeps the snapshots up to the current index; undo,
\* redo and trainOneEpoch keep them all.)
C2_SnapshotsImmutable ==
    [][last'.op # "setData"
       => \A k \in 1..Len(stepHistory) :
             (k <= currentStepIndex + 1
                \/ last'.op \in {"undo", "redo", "trainOneEpoch"})
             => RecordedState(k)' = RecordedState(k)]_vars

\* C3: stepUpdateWeights throws and changes no weights unless a backward
\* step has been executed for every layer since the most recent setData (so
\* it never applies gradients left over from before setData or from
\* trainOneEpoch).
C3_UpdateNeedsBackward ==
    [][(/\ last'.op = "stepUpdateWeights"
        /\ IsDef(currentInput)
        /\ since.backward # LayerIndices)
       => (last'.result = "throw" /\ LiveState' = LiveState)]_vars

\* C4: after stepBackwardLossGradient, the calls stepBackwardLayer(L-1),
\* stepBackwardLayer(L-2), .., stepBackwardLayer(0) made in that order all
\* succeed, each running that layer's backward and appending one backward
\* snapshot.
C4_BackwardInReverseOrder ==
    [][(/\ last'.op = "stepBackwardLayer"
        /\ last.result = "ok"
        /\ \/ last.op = "stepBackwardLossGradient" /\ last'.arg = NumLayers - 1
           \/ last.op = "stepBackwardLayer" /\ last'.arg = last.arg - 1)
       => (/\ last'.result = "ok"
           /\ IsDef(layers'[last'.arg + 1].weightGrad)
           /\ Len(GetStepHistory') = Len(GetStepHistory) + 1
           /\ stepHistory'[currentStepIndex' + 1].stepType = "backward"
           /\ stepHistory'[currentStepIndex' + 1].layerIndex = Some(last'.arg))]_vars

\* C5: after setData, stepBackwardLossGradient fails with the error 'Must
\* compute loss first' in every state where stepComputeLoss has not been
\* executed since that setData (also when trainOneEpoch has been called
\* since), and appends no snapshot.
C5_LossGradientNeedsLoss ==
    [][(/\ last'.op = "stepBackwardLossGradient"
        /\ IsDef(currentInput)
        /\ ~since.loss)
       => (/\ last'.result = "throw"
           /\ last'.error = "Must compute loss first"
           /\ UNCHANGED <<stepHistory, currentStepIndex>>)]_vars

\* C6: in every state where no stepBackwardLossGradient has executed since
\* the last setData, stepBackwardLayer(i) throws for every layer index i and
\* leaves the step history, the step index and every layer's cached
\* gradients unchanged.
C6_BackwardLayerNeedsLossGradient ==
    [][(last'.op = "stepBackwardLayer" /\ ~since.lossGrad)
       => (/\ last'.result = "throw"
           /\ UNCHANGED <<stepHistory, currentStepIndex>>
           /\ CachedGradients' = CachedGradients)]_vars

\* C6, the case: stepBackwardLayer has thrown in a state where the loss had
\* been computed but no loss gradient since the last setData
C6_Witness ==
    /\ last.op = "stepBackwardLayer"
    /\ last.result = "throw"
    /\ last.error = "Must compute loss gradient first"
    /\ since.loss
    /\ ~since.lossGrad

\* C7: one complete stepped training iteration on an L-layer network (L
\* forward steps, the loss step, the loss-gradient step, one backward
\* snapshot per layer, the weight update) appends exactly 2*L + 2
\* snapshots to the history.
C7_IterationAppends2LPlus2 ==
    iter.pos = 2 * NumLayers + 3
    => Len(GetStepHistory) - iter.base = 2 * NumLayers + 2

\* C8: immediately after any successful step the current index is the last
\* position of the stored history (every snapshot beyond the index the step
\* was taken at is discarded) and redo() returns false.
C8_StepTruncatesRedo ==
    (last.op \in StepOps /\ last.result = "ok")
    => (currentStepIndex = Len(stepHistory) - 1 /\ RedoReturnsFalse)

\* C8, the case: a step has been taken after undo() calls, with snapshots
\* stored beyond the index
C8_Witness ==
    /\ last.op \in StepOps
    /\ last.result = "ok"
    /\ last.cut > 0
    /\ currentStepIndex = Len(stepHistory) - 1

\* C9: undo() returns false and changes nothing (step index, history,
\* weights and biases) when the step index is 0; in every state with at
\* least two visible snapshots it returns true and decreases the step index
\* by exactly one.
C9_Undo ==
    [][last'.op = "undo"
       => /\ currentStepIndex = 0
             => (/\ last'.result = "false"
                 /\ UNCHANGED <<currentStepIndex, stepHistory>>
                 /\ LiveState' = LiveState)
          /\ currentStepIndex >= 1
             => (/\ last'.result = "true"
                 /\ currentStepIndex' = currentStepIndex - 1)]_vars

\* C9, the case: undo() has returned false at step index 0
C9_Witness ==
    /\ last.op = "undo"
    /\ last.result = "false"
    /\ currentStepIndex = 0
    /\ Len(stepHistory) >= 1

\* what C10 says of one call of redo()
RedoStep ==
    IF currentStepIndex >= Len(stepHistory) - 1
    THEN /\ last'.result = "false"
         /\ UNCHANGED engineVars
    ELSE /\ last'.result = "true"
         /\ currentStepIndex' = currentStepIndex + 1
         /\ LiveState' =
              [weights |-> stepHistory[currentStepIndex + 2].networkState.weights,
               biases |-> stepHistory[currentStepIndex + 2].networkState.biases]

\* C10 as claimed: redo() returns false and changes nothing at the last
\* stored snapshot; otherwise it returns true, increases the step index by
\* one and installs that snapshot's weights and biases, so that undo()
\* followed by redo() returns the engine to the same step index and the same
\* layer weights and biases.
C10_UndoRedoRoundTrip ==
    [][last'.op = "redo"
       => /\ RedoStep
          /\ (IsDef(undoFrom) /\ ~Val(undoFrom).redone)
             => (/\ currentStepIndex' = Val(undoFrom).currentStepIndex
                 /\ LiveState' = Val(undoFrom).state)]_vars

\* C10, amended: as claimed, but undo() followed by redo() returns the
\* engine to the same layer weights and biases only when no trainOneEpoch
\* has run since the snapshot at the current index was appended or restored
\* (to the same step index always).
C10_UndoRedoRoundTripUntrained ==
    [][last'.op = "redo"
       => /\ RedoStep
          /\ (IsDef(undoFrom) /\ ~Val(undoFrom).redone)
             => (/\ currentStepIndex' = Val(undoFrom).currentStepIndex
                 /\ ~Val(undoFrom).trained
                    => LiveState' = Val(undoFrom).state)]_vars

\* C10, the case: redo() has returned true right after an undo() that
\* changed the live weights
C10_Witness ==
    /\ last.op = "redo"
    /\ last.result = "true"
    /\ IsDef(undoFrom)
    /\ Val(undoFrom).redone
    /\ ~Val(undoFrom).trained
    /\ LiveState = Val(undoFrom).state
    /\ LiveState # [weights |-> stepHistory[currentStepIndex].networkState.weights,
                    biases |-> stepHistory[currentStepIndex].networkState.biases]

\* C11: when the latest step is a stepUpdateWeights, undo() restores every
\* layer's weights and biases on the live network to the values they had
\* immediately before that update was applied.
C11_UndoRestoresBeforeUpdate ==
    [][(/\ last.op = "stepUpdateWeights"
        /\ last.result = "ok"
        /\ last'.op = "undo")
       => LiveState' = Val(last.before)]_vars

\* C12: setData, called in any reachable state, leaves the engine with an
\* empty step history (getStepHistory() is empty), step index -1, an empty
\* forward-activation cache, and no cached loss or loss gradient.
C12_SetDataResets ==
    last.op = "setData"
    => (/\ GetStepHistory = <<>>
        /\ stepHistory = <<>>
        /\ currentStepIndex = -1
        /\ forwardActivations = <<>>
        /\ currentLoss = None
        /\ lossGradient = None)

\* C12, the case: setData has been called, after at least three other
\* calls, on an engine that had run a forward and a backward pass (the
\* layers still hold the cached input and gradients)
C12_Witness ==
    /\ last.op = "setData"
    /\ IsDef(layers[1].lastInput)
    /\ IsDef(layers[1].weightGrad)
    /\ ~since.lossGrad
    /\ calls >= 4
    /\ stepHistory = <<>>

\* C15: trainOneEpoch appends no snapshot and leaves the step history, the
\* step index and the forward-activation cache unchanged, in every state in
\* which it is called.
C15_TrainOneEpochFrame ==
    [][last'.op = "trainOneEpoch"
       => (/\ UNCHANGED <<stepHistory, currentStepIndex, forwardActivations>>
           /\ GetStepHistory' = GetStepHistory)]_vars

\* C15, the case: trainOneEpoch has been called in the middle of a history,
\* with snapshots to redo and activations cached
C15_Witness ==
    /\ last.op = "trainOneEpoch"
    /\ Len(stepHistory) >= 2
    /\ currentStepIndex < Len(stepHistory) - 1
    /\ Len(forwardActivations) >= 1
    /\ since.trained

(***************************************************************************)
(* The training run of the NeuralNetworkDebugger component                 *)
(* (src/components/NeuralNetworkDebugger.tsx, lines 12-66, 264-330 and     *)
(* 471-577).                                                               *)
(*                                                                         *)
(* trainNetwork is an async function: it runs synchronously up to its      *)
(* first await (line 537), and every later epoch runs when its timer       *)
(* fires.  A call suspended at the await is a record of trainingLoops: the *)
(* engine and the epoch count its closure captured, the epoch it has just  *)
(* trained, and whether a stop has been requested since it started.  Of an *)
(* engine only its optimizer matters here, and of the optimizer which      *)
(* running state it holds: the step counter t and the keys of its moment   *)
(* maps.  The data points are present throughout (Train is enabled), one   *)
(* number each for input and target.                                       *)
(***************************************************************************)
\* at most MaxEvents user events (clicks, configuration changes) happen
MaxEvents == 4

\* the optimizers and the epoch counts the user may configure
OptimizerTypes == {"sgd", "adam", "rmsprop"}
EpochCounts == {1, 2}

\* the numbers a user types for the input size, the output size and the
\* neurons of a layer
SizeInputs == {2}

\* the configuration the component starts with (lines 12-24)
InitialConfig ==
    [inputSize |-> 1, outputSize |-> 1, layers |-> <<8, 4, 1>>,
     optimizer |-> "sgd", epochs |-> 10]

\* the neurons of the layers the DebugEngine constructor builds (lines
\* 32-40): the last layer has config.outputSize neurons
LayerConfigs(config) ==
    [i \in 1..Len(config.layers) |->
        IF i = Len(config.layers) THEN config.outputSize ELSE config.layers[i]]

\* the keys Adam and RMSprop file the parameters of the layers under
\* (optimizers.ts, lines 101-107): `${rows}x${cols}` of the weights, that
\* is neurons x inputs (neural-network.ts, lines 201-207), as <<rows, cols>>,
\* and `${length}` of the bias
LayerKeys(config) ==
    LET neurons == LayerConfigs(config)
    IN  [i \in 1..Len(neurons) |->
            [weights |-> <<neurons[i],
                           IF i = 1 THEN config.inputSize ELSE neurons[i - 1]>>,
             bias |-> neurons[i]]]

\* getOptimizer(type) followed by reset(): no running state
GetOptimizer(type) ==
    [type |-> type, t |-> 0, m |-> {}, v |-> {}, biasM |-> {}, biasV |-> {}]

\* new DebugEngine(config) (debug-engine.ts, lines 30-44)
NewDebugEngine(config) ==
    [layerKeys |-> LayerKeys(config), optimizer |-> GetOptimizer(config.optimizer)]

\* the running state of an optimizer is at its initial value
OptimizerIsReset(opt) ==
    /\ opt.t = 0
    /\ opt.m = {} /\ opt.v = {} /\ opt.biasM = {} /\ opt.biasV = {}

\* the running state after optimizer.update on the weights filed under key
OptimizerStateUpdate(opt, key) ==
    IF opt.type = "adam"
    THEN [opt EXCEPT !.t = @ + 1, !.m = @ \cup {key}, !.v = @ \cup {key}]
    ELSE IF opt.type = "rmsprop"
    THEN [opt EXCEPT !.v = @ \cup {key}]
    ELSE opt

\* the running state after optimizer.updateBias on the bias filed under key
OptimizerStateUpdateBias(opt, key) ==
    IF opt.type = "adam"
    THEN [opt EXCEPT !.t = @ + 1, !.biasM = @ \cup {key}, !.biasV = @ \cup {key}]
    ELSE IF opt.type = "rmsprop"
    THEN [opt EXCEPT !.biasV = @ \cup {key}]
    ELSE opt

RECURSIVE EpochOptimizerFrom(_, _, _)
\* the optimizer after the update loop of trainOneEpoch (debug-engine.ts
\* lines 539-544) from layer i on, on an engine whose layers have these keys
EpochOptimizerFrom(opt, layerKeys, i) ==
    IF i > Len(layerKeys) THEN opt
    ELSE EpochOptimizerFrom(
             OptimizerStateUpdateBias(
                 OptimizerStateUpdate(opt, layerKeys[i].weights),
                 layerKeys[i].bias),
             layerKeys, i + 1)

\* the engine after debugEngine.trainOneEpoch
EngineTrainOneEpoch(engine) ==
    [engine EXCEPT !.optimizer = EpochOptimizerFrom(@, engine.layerKeys, 1)]

\* the DebugEngine is not modelled
EngineOff ==
    /\ layers = <<>>
    /\ optimizer = NewOptimizer("sgd")
    /\ stepHistory = <<>>
    /\ currentStepIndex = -1
    /\ currentInput = None
    /\ currentTarget = None
    /\ forwardActivations = <<>>
    /\ currentLoss = None
    /\ lossGradient = None
    /\ networkPrototype = NetworkMethods
    /\ calls = 0
    /\ last = [op |-> "off"]
    /\ since = SinceNothing
    /\ iter = NoIter
    /\ undoFrom = None

engineAllVars == <<layers, optimizer, stepHistory, currentStepIndex,
                   currentInput, currentTarget, forwardActivations,
                   currentLoss, lossGradient, networkPrototype, calls, last,
                   since, iter, undoFrom>>

\* what happened last: op, the loop that ran an epoch (0: none) and whether
\* a stop had been requested of that loop
UiEvent(op) == [op |-> op, loop |-> 0, afterStop |-> FALSE]

\* the component with the engine of its configuration rendered, the number
\* of epochs and the optimizer chosen
TrainInit ==
    /\ networkConfig \in {[InitialConfig EXCEPT !.optimizer = type, !.epochs = n] :
                            type \in OptimizerTypes, n \in EpochCounts}
    /\ debugEngine = Hook(1)
    /\ engines = <<NewDebugEngine(networkConfig)>>
    /\ isTraining = Hook(FALSE)
    /\ isPaused = Hook(FALSE)
    /\ shouldStopRef = TRUE
    /\ isPausedRef = FALSE
    /\ pausedAtEpochRef = 0
    /\ trainingLoops = {}
    /\ events = 0
    /\ uiLast = UiEvent("mount")
    /\ EngineOff
    /\ CalcOff
    /\ StepOff
    /\ CallOff

\* a user event
UserEvent ==
    /\ events < MaxEvents
    /\ events' = events + 1
    /\ UNCHANGED <<engineAllVars, callVars, calcVars, stepVars>>

\* every update made has been rendered
AllRendered ==
    debugEngine.queue = <<>> /\ isTraining.queue = <<>> /\ isPaused.queue = <<>>

\* the updates the finally block of trainNetwork makes (lines 545-552), of
\* isTraining and of isPaused
TrainFinally(pausedRef) ==
    IF ~pausedRef
    THEN [isTraining |-> <<SetTo(FALSE)>>, isPaused |-> <<SetTo(FALSE)>>]
    ELSE [isTraining |-> <<>>, isPaused |-> <<>>]

\* trainNetwork(resumeFromEpoch) up to its first await (lines 471-537), in
\* a click: the flags are reset, and the first epoch of the loop runs at
\* once on the engine of the committed render
TrainNetwork(resumeFromEpoch, op) ==
    /\ shouldStopRef' = FALSE
    /\ isPausedRef' = FALSE
    /\ UNCHANGED <<networkConfig, pausedAtEpochRef>>
    /\ debugEngine' = AfterEvent(debugEngine, <<>>)
    /\ IF resumeFromEpoch < networkConfig.epochs
       THEN /\ isTraining' = AfterEvent(isTraining, <<SetTo(TRUE)>>)
            /\ isPaused' = AfterEvent(isPaused, <<SetTo(FALSE)>>)
            /\ engines' = [engines EXCEPT ![debugEngine.state] =
                                              EngineTrainOneEpoch(@)]
            /\ trainingLoops' = trainingLoops \cup
                 {[id |-> events + 1,
                   engine |-> debugEngine.state,
                   epochs |-> networkConfig.epochs,
                   epoch |-> resumeFromEpoch,
                   stopped |-> FALSE]}
            /\ uiLast' = [op |-> op, loop |-> events + 1, afterStop |-> FALSE]
       ELSE /\ isTraining' = AfterEvent(isTraining,
                                      <<SetTo(TRUE)>> \o TrainFinally(FALSE).isTraining)
            /\ isPaused' = AfterEvent(isPaused,
                                    <<SetTo(FALSE)>> \o TrainFinally(FALSE).isPaused)
            /\ UNCHANGED <<engines, trainingLoops>>
            /\ uiLast' = UiEvent(op)

\* the Train Network button (lines 733-736), shown when the committed
\* render is neither training nor paused
ClickTrain ==
    /\ ~isTraining.state /\ ~isPaused.state
    /\ TrainNetwork(0, "train")

\* pauseTraining (lines 557-559), on the Pause button shown while training
ClickPause ==
    /\ isTraining.state
    /\ isPausedRef' = TRUE
    /\ uiLast' = UiEvent("pause")
    /\ UNCHANGED <<networkConfig, debugEngine, engines, isTraining,
                   isPaused, shouldStopRef, pausedAtEpochRef, trainingLoops>>

\* resumeTraining (lines 562-566), on the Resume button shown when paused
ClickResume ==
    /\ isPaused.state /\ ~isTraining.state
    /\ IF pausedAtEpochRef < networkConfig.epochs
       THEN TrainNetwork(pausedAtEpochRef, "resume")
       ELSE /\ uiLast' = UiEvent("resume")
            /\ UNCHANGED <<networkConfig, debugEngine, engines,
                           isTraining, isPaused, shouldStopRef, isPausedRef,
                           pausedAtEpochRef, trainingLoops>>

\* every suspended loop has now been asked to stop
StopRequested == {[l EXCEPT !.stopped = TRUE] : l \in trainingLoops}

\* stopTraining (lines 569-577), on the Stop button shown while training
\* or paused
ClickStop ==
    /\ isTraining.state \/ isPaused.state
    /\ shouldStopRef' = TRUE
    /\ isPausedRef' = FALSE
    /\ isTraining' = AfterEvent(isTraining, <<SetTo(FALSE)>>)
    /\ isPaused' = AfterEvent(isPaused, <<SetTo(FALSE)>>)
    /\ debugEngine' = AfterEvent(debugEngine, <<>>)
    /\ pausedAtEpochRef' = 0
    /\ trainingLoops' = StopRequested
    /\ uiLast' = UiEvent("stop")
    /\ UNCHANGED <<networkConfig, engines>>

\* setNetworkConfig in a handler, the render that ends the event, and the
\* effect of lines 50-66 after it: the effect builds a new engine from the
\* new configuration, sets the refs (which stops any running training) and
\* queues setDebugEngine(engine) and setIsPaused(false).  Every
\* setNetworkConfig makes a new configuration object and runs the effect
SetNetworkConfig(config) ==
    /\ networkConfig' = config
    /\ engines' = Append(engines, NewDebugEngine(config))
    /\ debugEngine' = SetState(AfterEvent(debugEngine, <<>>), "default",
                               SetTo(Len(engines) + 1))
    /\ isPaused' = SetState(AfterEvent(isPaused, <<>>), "default", SetTo(FALSE))
    /\ isTraining' = AfterEvent(isTraining, <<>>)
    /\ shouldStopRef' = TRUE
    /\ isPausedRef' = FALSE
    /\ pausedAtEpochRef' = 0
    /\ trainingLoops' = StopRequested
    /\ uiLast' = UiEvent("config")

\* the Optimizer select (line 691)
SetOptimizer(type) ==
    SetNetworkConfig([networkConfig EXCEPT !.optimizer = type])

\* the Epochs input (line 726)
SetEpochs(n) ==
    SetNetworkConfig([networkConfig EXCEPT !.epochs = n])

\* the Input Size input (line 595)
SetInputSize(n) ==
    SetNetworkConfig([networkConfig EXCEPT !.inputSize = n])

\* an input of a field left out of networkConfig here: the loss function
\* (line 678), the learning rate (line 711) or a layer's activation (lines
\* 293-311)
SetOtherField == SetNetworkConfig(networkConfig)

\* handleAddLayer (lines 264-274), on the button enabled below five layers
HandleAddLayer ==
    /\ Len(networkConfig.layers) < 5
    /\ SetNetworkConfig([networkConfig EXCEPT
                            !.layers = Append(@, networkConfig.outputSize)])

\* handleRemoveLayer(index) (lines 276-291), on the button enabled while
\* there is more than one layer
HandleRemoveLayer(index) ==
    /\ Len(networkConfig.layers) > 1
    /\ LET newLayers == [i \in 1..(Len(networkConfig.layers) - 1) |->
                            IF i <= index THEN networkConfig.layers[i]
                            ELSE networkConfig.layers[i + 1]]
       IN  SetNetworkConfig([networkConfig EXCEPT
                                !.layers = newLayers,
                                !.outputSize = newLayers[Len(newLayers)]])

\* handleLayerChange(index, 'neurons', value) (lines 293-311)
HandleLayerChange(index, value) ==
    SetNetworkConfig([networkConfig EXCEPT
                         !.layers[index + 1] = value,
                         !.outputSize =
                            IF index = Len(networkConfig.layers) - 1
                            THEN value ELSE @])

\* handleOutputSizeChange(outputSize) (lines 313-330)
HandleOutputSizeChange(outputSize) ==
    SetNetworkConfig([networkConfig EXCEPT
                         !.outputSize = outputSize,
                         !.layers[Len(networkConfig.layers)] = outputSize])

\* a task of React's scheduler: the queued updates of debugEngine,
\* isTraining and isPaused are rendered
TrainRender ==
    /\ ~AllRendered
    /\ debugEngine' = RenderHook(debugEngine, FALSE)
    /\ isTraining' = RenderHook(isTraining, FALSE)
    /\ isPaused' = RenderHook(isPaused, FALSE)
    /\ uiLast' = UiEvent("render")
    /\ UNCHANGED <<networkConfig, engines, shouldStopRef, isPausedRef,
                   pausedAtEpochRef, trainingLoops, events, engineAllVars,
                   callVars, calcVars, stepVars>>

\* the timer of a suspended loop fires (lines 537, 507-537, 545-552): the
\* loop goes on to its next epoch
LoopWake(l) ==
    LET epoch == l.epoch + 1
    IN  /\ UNCHANGED <<networkConfig, debugEngine, shouldStopRef, isPausedRef,
                       events, engineAllVars, callVars,
                       calcVars, stepVars>>
        /\ IF epoch >= l.epochs \/ shouldStopRef
           THEN \* the loop ends, or breaks at the stop signal
                /\ isTraining' = Queued(isTraining, TrainFinally(isPausedRef).isTraining)
                /\ isPaused' = Queued(isPaused, TrainFinally(isPausedRef).isPaused)
                /\ trainingLoops' = trainingLoops \ {l}
                /\ uiLast' = UiEvent("exit")
                /\ UNCHANGED <<engines, pausedAtEpochRef>>
           ELSE IF isPausedRef
           THEN \* the pause signal: return, keeping the state for resume
                /\ pausedAtEpochRef' = epoch
                /\ isTraining' = Queued(isTraining, <<SetTo(FALSE)>>)
                /\ isPaused' = Queued(isPaused, <<SetTo(TRUE)>>)
                /\ trainingLoops' = trainingLoops \ {l}
                /\ uiLast' = UiEvent("paused")
                /\ UNCHANGED engines
           ELSE \* debugEngine.trainOneEpoch of the closure's engine
                /\ engines' = [engines EXCEPT ![l.engine] = EngineTrainOneEpoch(@)]
                /\ trainingLoops' =
                     (trainingLoops \ {l}) \cup {[l EXCEPT !.epoch = epoch]}
                /\ uiLast' = [op |-> "epoch", loop |-> l.id, afterStop |-> l.stopped]
                /\ UNCHANGED <<isTraining, isPaused, pausedAtEpochRef>>

\* the 0-based indices of the layers of the configuration
ConfigLayerIndices == 0..(Len(networkConfig.layers) - 1)

TrainNext ==
    \/ UserEvent /\ ClickTrain
    \/ UserEvent /\ ClickPause
    \/ UserEvent /\ ClickResume
    \/ UserEvent /\ ClickStop
    \/ \E type \in OptimizerTypes : UserEvent /\ SetOptimizer(type)
    \/ \E n \in EpochCounts : UserEvent /\ SetEpochs(n)
    \/ \E n \in SizeInputs : UserEvent /\ SetInputSize(n)
    \/ UserEvent /\ SetOtherField
    \/ UserEvent /\ HandleAddLayer
    \/ \E index \in ConfigLayerIndices : UserEvent /\ HandleRemoveLayer(index)
    \/ \E index \in ConfigLayerIndices, n \in SizeInputs :
          UserEvent /\ HandleLayerChange(index, n)
    \/ \E n \in SizeInputs : UserEvent /\ HandleOutputSizeChange(n)
    \/ TrainRender
    \/ \E l \in trainingLoops : LoopWake(l)

TrainSpec == TrainInit /\ [][TrainNext]_vars

\* C13: the optimizer's running state (Adam's step counter t and moments
\* m/v, RMSprop's v) is at its initial value at the start of every training
\* run that restarts from epoch 0 (the Train button), and in the engine
\* built when the optimizer type changes.
C13_OptimizerResetOnRestart ==
    [][/\ uiLast'.op = "train"
          => OptimizerIsReset(engines[debugEngine.state].optimizer)
       /\ (uiLast'.op = "config"
             /\ networkConfig'.optimizer # networkConfig.optimizer)
          => OptimizerIsReset(engines'[Len(engines')].optimizer)]_vars

\* C14: at most one epoch loop is ever making trainOneEpoch calls: a loop
\* of which a stop has been requested performs no further epoch, and at
\* most one loop is suspended of which none has been requested.
C14_OneEpochLoop ==
    [][/\ uiLast'.op = "epoch" => ~uiLast'.afterStop
       /\ Cardinality({l \in trainingLoops' : ~l.stopped}) <= 1]_vars


(***************************************************************************)
(* Calls of the library functions on their own.  The outcome of a call is  *)
(* a returned value or a thrown error.                                     *)
(***************************************************************************)
Returned(v) == [kind |-> "return", value |-> v]

Thrown(e) == [kind |-> "throw", error |-> e]

\* the call has been made
Called(f) == fn = f /\ IsDef(ret)

(***************************************************************************)
(* matmul (src/lib/neural-network.ts, lines 10-23; the same code is        *)
(* DebugEngine.matmul, src/lib/debug-engine.ts, lines 466-479) on tensors  *)
(* of any two shapes.                                                      *)
(***************************************************************************)
\* rows and columns of the tensors
Dims == {1, 2}

\* entries of the tensors
Entries == {1, 2}

\* the well-formed tensors: data has rows rows of cols entries (types.ts)
Tensors ==
    UNION {{Tensor(r, c, d) : d \in [1..r -> [1..c -> Entries]]} :
           <<r, c>> \in Dims \X Dims}

\* the inner loop reads b.data[k][j] for a k with b.data[k] undefined
\* (line 17): a TypeError
MatmulReadsUndefinedRow(a, b) ==
    a.rows > 0 /\ b.cols > 0 /\ a.cols > Len(b.data)

\* the outcome of matmul(a, b); there is no check of the shapes
MatmulCall(a, b) ==
    IF MatmulReadsUndefinedRow(a, b)
    THEN Thrown("TypeError")
    ELSE Returned(matmul(a, b))

MatmulInit ==
    /\ fn = "matmul"
    /\ args \in [a : Tensors, b : Tensors]
    /\ frame = <<>>
    /\ ret = None
    /\ EngineOff
    /\ CalcOff
    /\ StepOff
    /\ TrainOff

CallMatmul ==
    /\ fn = "matmul"
    /\ ret = None
    /\ ret' = Some(MatmulCall(args.a, args.b))
    /\ UNCHANGED <<fn, args, frame, engineAllVars, trainVars, calcVars, stepVars>>

MatmulNext == CallMatmul

MatmulSpec == MatmulInit /\ [][MatmulNext]_vars

\* C16: matmul(A, B) with A.cols # B.rows fails with an error in every such
\* case and never returns a tensor.
C16_MatmulShapeMismatchFails ==
    (Called("matmul") /\ args.a.cols # args.b.rows)
    => Val(ret).kind = "throw"


(***************************************************************************)
(* JavaScript numbers with their non-finite values, on two scales: the     *)
(* numbers of magnitude up to MaxFinite are finite; next to MaxFinite the  *)
(* numbers that differ by less than HalfUlp are stored as one number (a    *)
(* small operand is absorbed by rounding: MAX_VALUE + 5 is MAX_VALUE), and *)
(* a result that rounds beyond MaxFinite is +/-Infinity.                   *)
(***************************************************************************)
\* the largest finite magnitude (Number.MAX_VALUE)
MaxFinite == 1000

Num(n) == [k |-> "num", v |-> n]

NaN == [k |-> "NaN", v |-> 0]

Infinity == [k |-> "Infinity", v |-> 1]

NegInfinity == [k |-> "Infinity", v |-> -1]

\* half the distance between Number.MAX_VALUE and the next number of its
\* exponent: the small numbers of the model are below it
HalfUlp == MaxFinite \div 10

\* the number a result n is stored as (round to nearest)
Overflow(n) ==
    IF n >= MaxFinite + HalfUlp THEN Infinity
    ELSE IF n <= -(MaxFinite + HalfUlp) THEN NegInfinity
    ELSE IF n > MaxFinite - HalfUlp THEN Num(MaxFinite)
    ELSE IF n < -(MaxFinite - HalfUlp) THEN Num(-MaxFinite)
    ELSE Num(n)

Sign(a) == IF a.v > 0 THEN 1 ELSE IF a.v < 0 THEN -1 ELSE 0

\* a keeps the old value if the value is NaN or infinite: a mutation that
\* does not test the value
FiniteOrUnchecked(val, old) == val

\* isFinite(val) ? val : old (lines 172 and 177)
FiniteOr(val, old) == IF val.k = "num" THEN val ELSE old

\* -a
Negate(a) == [a EXCEPT !.v = -a.v]

\* a * b
Times(a, b) ==
    IF a.k = "NaN" \/ b.k = "NaN" THEN NaN
    ELSE IF a.k = "Infinity" \/ b.k = "Infinity"
         THEN IF Sign(a) * Sign(b) = 0 THEN NaN
              ELSE IF Sign(a) * Sign(b) > 0 THEN Infinity ELSE NegInfinity
    ELSE Overflow(a.v * b.v)

\* a - b
Minus(a, b) ==
    IF a.k = "NaN" \/ b.k = "NaN" THEN NaN
    ELSE IF a.k = "Infinity" /\ b.k = "Infinity"
         THEN IF a.v = b.v THEN NaN ELSE a
    ELSE IF a.k = "Infinity" THEN a
    ELSE IF b.k = "Infinity" THEN Negate(b)
    ELSE Overflow(a.v - b.v)

\* a <= b, for a and b other than NaN
AtMost(a, b) ==
    IF a.k = "Infinity" THEN a.v < 0 \/ b = Infinity
    ELSE IF b.k = "Infinity" THEN b.v > 0
    ELSE a.v <= b.v

\* Math.min(a, b) and Math.max(a, b)
MathMin(a, b) ==
    IF a.k = "NaN" \/ b.k = "NaN" THEN NaN ELSE IF AtMost(a, b) THEN a ELSE b

MathMax(a, b) ==
    IF a.k = "NaN" \/ b.k = "NaN" THEN NaN ELSE IF AtMost(a, b) THEN b ELSE a

(***************************************************************************)
(* Layer.updateWeights (src/lib/neural-network.ts, lines 156-178) and      *)
(* clipTensor (lines 182-187), on tensors of such numbers.                 *)
(***************************************************************************)
\* const clipValue = 5.0 (line 160)
ClipValue == 5

\* Math.max(-clipValue, Math.min(clipValue, val))
Clip(val, clipValue) == MathMax(Negate(clipValue), MathMin(clipValue, val))

clipTensor(t, clipValue) ==
    Tensor(t.rows, t.cols,
           [i \in 1..Len(t.data) |->
               [j \in 1..Len(t.data[i]) |-> Clip(t.data[i][j], clipValue)]])

\* Layer.updateWeights(learningRate): the layer afterwards
LayerUpdateWeights(layer, learningRate) ==
    IF ~IsDef(layer.weightGrad) \/ ~IsDef(layer.biasGrad) THEN layer
    ELSE
    LET clipValue == Num(ClipValue)
        clippedWeightGrad == clipTensor(Val(layer.weightGrad), clipValue)
        clippedBiasGrad ==
            [i \in 1..Len(Val(layer.biasGrad)) |->
                Clip(Val(layer.biasGrad)[i], clipValue)]
        \* multiplyScalar(clippedWeightGrad, learningRate)
        weightUpdate ==
            [i \in 1..Len(clippedWeightGrad.data) |->
                [j \in 1..Len(clippedWeightGrad.data[i]) |->
                    Times(clippedWeightGrad.data[i][j], learningRate)]]
        \* subtract(this.weights, weightUpdate)
        weights ==
            [i \in 1..Len(layer.weights.data) |->
                [j \in 1..Len(layer.weights.data[i]) |->
                    Minus(layer.weights.data[i][j], weightUpdate[i][j])]]
        bias ==
            [i \in 1..Len(layer.bias) |->
                LET newVal == Minus(layer.bias[i],
                                    Times(learningRate, clippedBiasGrad[i]))
                IN  FiniteOr(newVal, layer.bias[i])]
    IN  [layer EXCEPT
            !.weights = Tensor(layer.weights.rows, layer.weights.cols,
                               [i \in 1..Len(weights) |->
                                   [j \in 1..Len(weights[i]) |->
                                       FiniteOr(weights[i][j], Num(0))]]),
            !.bias = bias]

\* every weight and every bias of the layer is finite
LayerIsFinite(layer) ==
    /\ \A i \in 1..Len(layer.weights.data) :
          \A j \in 1..Len(layer.weights.data[i]) :
             layer.weights.data[i][j].k = "num"
    /\ \A i \in 1..Len(layer.bias) : layer.bias[i].k = "num"

\* the calls of updateWeights made on one layer
MaxUpdates == 2

\* finite parameters and learning rates; gradients finite, NaN and infinite
FiniteValues == {Num(-MaxFinite), Num(-1), Num(0), Num(1), Num(MaxFinite)}

LearningRateValues == {Num(-MaxFinite), Num(0), Num(1), Num(MaxFinite)}

GradientValues == {NaN, Infinity, NegInfinity, Num(-MaxFinite), Num(1)}

\* the gradients Layer.backward may have cached: none, or any values
CachedGradientValues ==
    {[weightGrad |-> None, biasGrad |-> None]} \cup
    {[weightGrad |-> Some(Tensor(1, 1, <<<<wg>>>>)), biasGrad |-> Some(<<bg>>)] :
        <<wg, bg>> \in GradientValues \X GradientValues}

\* a layer of one input and one output with finite parameters
UpdateWeightsInit ==
    /\ fn = "Layer.updateWeights"
    /\ args = <<>>
    /\ \E w \in FiniteValues, b \in FiniteValues :
          frame = [layer |-> [weights |-> Tensor(1, 1, <<<<w>>>>),
                              bias |-> <<b>>,
                              weightGrad |-> None,
                              biasGrad |-> None],
                   updates |-> 0]
    /\ ret = None
    /\ EngineOff
    /\ CalcOff
    /\ StepOff
    /\ TrainOff

\* layer.updateWeights(learningRate) with the gradients cached before it
CallUpdateWeights ==
    /\ fn = "Layer.updateWeights"
    /\ frame.updates < MaxUpdates
    /\ \E g \in CachedGradientValues, learningRate \in LearningRateValues :
          /\ args' = [weightGrad |-> g.weightGrad, biasGrad |-> g.biasGrad,
                      learningRate |-> learningRate]
          /\ frame' = [layer |-> LayerUpdateWeights(
                                    [frame.layer EXCEPT
                                        !.weightGrad = g.weightGrad,
                                        !.biasGrad = g.biasGrad],
                                    learningRate),
                       updates |-> frame.updates + 1]
    /\ ret' = Some(Returned("undefined"))
    /\ UNCHANGED <<fn, engineAllVars, trainVars, calcVars, stepVars>>

UpdateWeightsNext == CallUpdateWeights

UpdateWeightsSpec == UpdateWeightsInit /\ [][UpdateWeightsNext]_vars

\* C18: if all weights and biases of a Layer are finite before
\* Layer.updateWeights, they are all finite after it, for every finite
\* learning rate and every cached gradient value including NaN and
\* +/-Infinity; hence they are finite after any number of updates.
C18_UpdateWeightsKeepsFinite ==
    fn = "Layer.updateWeights" => LayerIsFinite(frame.layer)

\* C18, the case: updateWeights has run twice on a layer, the last time with
\* a NaN weight gradient and an infinite bias gradient and with a learning
\* rate whose product with the clipped gradient overflows
C18_Witness ==
    /\ Called("Layer.updateWeights")
    /\ frame.updates >= 2
    /\ args.weightGrad = Some(Tensor(1, 1, <<<<NaN>>>>))
    /\ args.biasGrad = Some(<<Infinity>>)
    /\ args.learningRate = Num(MaxFinite)
    /\ LayerIsFinite(frame.layer)


(***************************************************************************)
(* Network.train (src/lib/neural-network.ts, lines 225-247), statement by  *)
(* statement.  frame holds the network's layers, the locals epoch,         *)
(* lossHistory and predictions, the position pc, and two records of the    *)
(* run: log, the calls made so far, and before, the layers as they were    *)
(* when the updates of each epoch began.                                   *)
(***************************************************************************)
\* the values of the argument epochs
TrainEpochs == {-1, 0, 1, 2, 3}

\* the entries of the one-entry tensors x and y
TrainXs == {1, 2}

TrainYs == {0, 1}

\* the tensor t and the vector vec in the numbers of Layer.updateWeights
NumTensor(t) ==
    Tensor(t.rows, t.cols,
           [i \in 1..Len(t.data) |->
               [j \in 1..Len(t.data[i]) |-> Overflow(t.data[i][j])]])

NumVector(vec) == [i \in 1..Len(vec) |-> Overflow(vec[i])]

\* layer.updateWeights(learningRate) on a layer of the network
NetworkUpdateLayer(layer, learningRate) ==
    LET u == LayerUpdateWeights(
                 [weights |-> NumTensor(layer.weights),
                  bias |-> NumVector(layer.bias),
                  weightGrad |-> IF IsDef(layer.weightGrad)
                                 THEN Some(NumTensor(Val(layer.weightGrad)))
                                 ELSE None,
                  biasGrad |-> IF IsDef(layer.biasGrad)
                               THEN Some(NumVector(Val(layer.biasGrad)))
                               ELSE None],
                 Overflow(learningRate))
    IN  [layer EXCEPT
            !.weights = Tensor(u.weights.rows, u.weights.cols,
                               [i \in 1..Len(u.weights.data) |->
                                   [j \in 1..Len(u.weights.data[i]) |->
                                       u.weights.data[i][j].v]]),
            !.bias = [i \in 1..Len(u.bias) |-> u.bias[i].v]]

NetworkTrainInit ==
    /\ fn = "Network.train"
    /\ args \in [x : {Scalar(x) : x \in TrainXs}, y : {Scalar(y) : y \in TrainYs},
                 epochs : TrainEpochs, learningRate : LearningRates]
    /\ \E ls \in Networks :
          frame = [layers |-> ls, pc |-> "loop", epoch |-> 0,
                   lossHistory |-> <<>>, predictions |-> None, i |-> 0,
                   before |-> <<>>, log |-> <<>>]
    /\ ret = None
    /\ EngineOff
    /\ CalcOff
    /\ StepOff
    /\ TrainOff

\* a loop test that runs the body once more
TrainLoopContinuesInclusive(epoch, epochs) == epoch <= epochs

\* epoch < epochs (line 228)
TrainLoopContinues(epoch, epochs) == epoch < epochs

\* the loop test, and the return of lossHistory (line 246)
NetworkTrainLoop ==
    /\ fn = "Network.train"
    /\ frame.pc = "loop"
    /\ IF TrainLoopContinues(frame.epoch, args.epochs)
       THEN /\ frame' = [frame EXCEPT !.pc = "forward"]
            /\ UNCHANGED ret
       ELSE /\ frame' = [frame EXCEPT !.pc = "done"]
            /\ ret' = Some(Returned(frame.lossHistory))
    /\ UNCHANGED <<fn, args, engineAllVars, trainVars, calcVars, stepVars>>

\* forward pass and loss (lines 229-234)
NetworkTrainForward ==
    /\ fn = "Network.train"
    /\ frame.pc = "forward"
    /\ LET f == NetworkForward(frame.layers, args.x)
           predictions == f.outs[Len(f.outs)]
           loss == MSECompute(predictions, args.y)
       IN  frame' = [frame EXCEPT
                        !.layers = f.layers,
                        !.predictions = Some(predictions),
                        !.lossHistory = Append(@, loss),
                        !.log = @ \o <<<<"forward", frame.epoch>>,
                                       <<"compute", frame.epoch>>>>,
                        !.pc = "backward"]
    /\ UNCHANGED <<fn, args, ret, engineAllVars, trainVars, calcVars, stepVars>>

\* gradient of the loss and backward pass (lines 236-238)
NetworkTrainBackward ==
    /\ fn = "Network.train"
    /\ frame.pc = "backward"
    /\ LET grad == MSEGradient(Val(frame.predictions), args.y)
           b == NetworkBackward(frame.layers, grad)
       IN  frame' = [frame EXCEPT
                        !.layers = b.layers,
                        !.log = @ \o <<<<"gradient", frame.epoch>>,
                                       <<"backward", frame.epoch>>>>,
                        !.before = Append(@, b.layers),
                        !.i = 1,
                        !.pc = "update"]
    /\ UNCHANGED <<fn, args, ret, engineAllVars, trainVars, calcVars, stepVars>>

\* one round of the loop over the layers (lines 241-243), and epoch++ after
\* the last one
NetworkTrainUpdate ==
    /\ fn = "Network.train"
    /\ frame.pc = "update"
    /\ LET i == frame.i
           last_ == i = Len(frame.layers)
       IN  frame' = [frame EXCEPT
                        !.layers[i] = NetworkUpdateLayer(@, args.learningRate),
                        !.log = Append(@, <<"updateWeights", i>>),
                        !.i = i + 1,
                        !.epoch = IF last_ THEN @ + 1 ELSE @,
                        !.pc = IF last_ THEN "loop" ELSE "update"]
    /\ UNCHANGED <<fn, args, ret, engineAllVars, trainVars, calcVars, stepVars>>

NetworkTrainNext ==
    \/ NetworkTrainLoop
    \/ NetworkTrainForward
    \/ NetworkTrainBackward
    \/ NetworkTrainUpdate

NetworkTrainSpec == NetworkTrainInit /\ [][NetworkTrainNext]_vars

RECURSIVE EpochsLog(_, _)
\* the calls of n epochs on a network of l layers, in the order the claim
\* states: forward, loss, gradient, backward, then every layer's update once
EpochsLog(n, l) ==
    IF n <= 0 THEN <<>>
    ELSE EpochsLog(n - 1, l) \o
         <<<<"forward", n - 1>>, <<"compute", n - 1>>,
           <<"gradient", n - 1>>, <<"backward", n - 1>>>> \o
         [i \in 1..l |-> <<"updateWeights", i>>]

\* C17: Network.train(x, y, epochs, lr) returns a loss history with exactly
\* epochs entries (none when epochs <= 0), where entry k is the loss of the
\* forward pass with the weights as they were before the k-th update, and
\* every layer's updateWeights is called exactly once per epoch after that
\* epoch's backward pass.
C17_TrainLossHistory ==
    Called("Network.train")
    => LET lossHistory == Val(ret).value
       IN  /\ Val(ret).kind = "return"
           /\ Len(lossHistory) = (IF args.epochs > 0 THEN args.epochs ELSE 0)
           /\ Len(frame.before) = Len(lossHistory)
           /\ \A k \in 1..Len(lossHistory) :
                 LET f == NetworkForward(frame.before[k], args.x)
                 IN  lossHistory[k] = MSECompute(f.outs[Len(f.outs)], args.y)
           /\ frame.log = EpochsLog(args.epochs, Len(frame.layers))

\* C17, the case: three epochs on a network of two layers have returned
\* three losses, the weights having changed in between
C17_Witness ==
    /\ Called("Network.train")
    /\ args.epochs = 3
    /\ Len(frame.layers) = 2
    /\ Len(Val(ret).value) = 3
    /\ Val(ret).value[1] # Val(ret).value[2]
    /\ NetworkGetState(frame.before[1]) # NetworkGetState(frame.before[2])


(***************************************************************************)
(* topologicalSort and evaluateAllExpressions (src/lib/graph-analysis.ts,  *)
(* lines 99-150; the same code is in src/components/GraphCalculator.tsx,   *)
(* lines 125-157 and 261-277).  An expression is its label and its text;   *)
(* a text is a sum of terms, <<"y1", "1">> being "y1+1".                   *)
(***************************************************************************)
\* the labels the component gives to expressions (GraphCalculator.tsx:973)
LabelNames == {"y1", "y2", "y3"}

\* the spellings of a reference a user may type
RefTerms == LabelNames \cup {"Y1"}

\* String.prototype.toLowerCase on the terms and labels
ToLowerCase(str) == IF str = "Y1" THEN "y1" ELSE str

\* the texts: empty, "x^2", a reference plus one, the sum of two references
Texts ==
    {<<>>, <<"x^2">>} \cup {<<r, "1">> : r \in RefTerms} \cup
    {<<r[1], r[2]>> : r \in {p \in LabelNames \X LabelNames : p[1] # p[2]}}

\* the lists of expressions with unique labels, in every order
ExpressionLists ==
    UNION {{es \in [1..n -> [label : LabelNames, text : Texts]] :
               \A i, j \in 1..n : i # j => es[i].label # es[j].label} :
           n \in 0..Cardinality(LabelNames)}

\* the values of x
GraphXs == {3}

\* the frames the call stack holds before a call fails with a RangeError
MaxStack == 5

\* text.toLowerCase().match(/y\d+/g) || [] (graph-analysis.ts:135,
\* extractExpressionRefs in GraphCalculator.tsx:90-93)
ExtractExpressionRefs(text) ==
    LET lower == [i \in 1..Len(text) |-> ToLowerCase(text[i])]
    IN  SelectSeq(lower, LAMBDA term : term \in LabelNames)

\* labelToExpr.get(label) for the map of lines 120-121: the last expression
\* of that label, if any
LabelToExpr(expressions, label) ==
    LET at == {i \in 1..Len(expressions) : ToLowerCase(expressions[i].label) = label}
    IN  IF at = {} THEN None
        ELSE Some(expressions[CHOOSE i \in at : \A j \in at : j <= i])

\* a guard that never finds the label on the current path
NeverVisiting(label, visiting) == FALSE

\* visiting.has(label) (line 129)
IsVisiting(label, visiting) == label \in visiting

\* a push at the front of the result
VisitPushFront(result, expr) == <<expr>> \o result

\* result.push(expr) (line 142)
VisitPush(result, expr) == Append(result, expr)

RECURSIVE SumTerms(_, _, _, _)
\* the value of the first n terms once the references are substituted
SumTerms(terms, x, exprValues, n) ==
    IF n = 0 THEN 0
    ELSE SumTerms(terms, x, exprValues, n - 1) +
         (IF terms[n] = "x^2" THEN x * x
          ELSE IF terms[n] = "1" THEN 1
          ELSE Val(exprValues[terms[n]]))

\* an evaluation that takes a reference without a value for zero
EvaluateExpressionAsZero(text, x, exprValues) ==
    LET sanitized == [i \in 1..Len(text) |-> ToLowerCase(text[i])]
    IN  Some(SumTerms(sanitized, x,
                      [r \in LabelNames |->
                          IF r \in DOMAIN exprValues /\ exprValues[r] # None
                          THEN exprValues[r] ELSE Some(0)],
                      Len(sanitized)))

\* evaluateExpression(expr, x, params, exprValues) (lines 12-96): null when
\* a referenced value is null, when a reference is to no computed value
\* (the compiled function throws a ReferenceError, which is caught), or
\* when the text is empty (the compiled function returns undefined, which is
\* no finite number, lines 89-92)
EvaluateExpression(text, x, exprValues) ==
    LET sanitized == [i \in 1..Len(text) |-> ToLowerCase(text[i])]
        refs == {sanitized[i] : i \in 1..Len(sanitized)} \cap LabelNames
    IN  IF \E name \in refs \cap DOMAIN exprValues : exprValues[name] = None
        THEN None
        ELSE IF refs \ DOMAIN exprValues # {} THEN None
        ELSE IF Len(sanitized) = 0 THEN None
        ELSE Some(SumTerms(sanitized, x, exprValues, Len(sanitized)))

\* evaluateAllExpressions(expressions, x, params) is called
GraphInit ==
    /\ fn = "evaluateAllExpressions"
    /\ args \in [expressions : ExpressionLists, x : GraphXs]
    /\ frame = [pc |-> "for", idx |-> 1, visited |-> {}, visiting |-> {},
                result |-> <<>>, stack |-> <<>>, sortedExprs |-> None,
                values |-> <<>>, ev |-> 1]
    /\ ret = None
    /\ EngineOff
    /\ CalcOff
    /\ StepOff
    /\ TrainOff

\* the call stack without its top frame; the position once it is empty
Return(stack) == SubSeq(stack, 1, Len(stack) - 1)

PcAfterReturn(stack) == IF Len(stack) = 1 THEN "for" ELSE "visit"

\* the loop of lines 145-147 calls visit on the next expression with a new
\* set; after the last one topologicalSort returns result (line 149)
SortLoop ==
    /\ fn = "evaluateAllExpressions"
    /\ frame.pc = "for"
    /\ IF frame.idx <= Len(args.expressions)
       THEN frame' = [frame EXCEPT
                         !.stack = <<[label |-> ToLowerCase(args.expressions[frame.idx].label),
                                      stage |-> "enter", refs |-> <<>>, k |-> 1]>>,
                         !.visiting = {},
                         !.idx = @ + 1,
                         !.pc = "visit"]
       ELSE frame' = [frame EXCEPT !.sortedExprs = Some(frame.result),
                                   !.pc = "evaluate"]
    /\ UNCHANGED <<fn, args, ret, engineAllVars, trainVars, calcVars, stepVars>>

\* visit(label, visiting) up to its loop (lines 127-135)
VisitEnter ==
    /\ fn = "evaluateAllExpressions"
    /\ frame.pc = "visit"
    /\ LET top == frame.stack[Len(frame.stack)]
           expr == LabelToExpr(args.expressions, top.label)
       IN  /\ top.stage = "enter"
           /\ IF \/ top.label \in frame.visited
                 \/ IsVisiting(top.label, frame.visiting)
                 \/ ~IsDef(expr)
              THEN frame' = [frame EXCEPT !.stack = Return(@),
                                          !.pc = PcAfterReturn(frame.stack)]
              ELSE frame' = [frame EXCEPT
                                !.visiting = @ \cup {top.label},
                                !.stack[Len(frame.stack)] =
                                    [top EXCEPT !.stage = "refs",
                                                !.refs = ExtractExpressionRefs(Val(expr).text)]]
    /\ UNCHANGED <<fn, args, ret, engineAllVars, trainVars, calcVars, stepVars>>

\* one round of the loop over refs (lines 136-138): visit(ref, visiting),
\* which fails with a RangeError when the call stack is full; after the
\* loop, lines 140-142
VisitRefs ==
    /\ fn = "evaluateAllExpressions"
    /\ frame.pc = "visit"
    /\ LET top == frame.stack[Len(frame.stack)]
           expr == LabelToExpr(args.expressions, top.label)
       IN  /\ top.stage = "refs"
           /\ IF top.k <= Len(top.refs)
              THEN IF Len(frame.stack) >= MaxStack
                   THEN /\ frame' = [frame EXCEPT !.stack = <<>>, !.pc = "done"]
                        /\ ret' = Some(Thrown("RangeError"))
                   ELSE /\ frame' = [frame EXCEPT
                                        !.stack = Append(
                                            [@ EXCEPT ![Len(frame.stack)].k = top.k + 1],
                                            [label |-> top.refs[top.k], stage |-> "enter",
                                             refs |-> <<>>, k |-> 1])]
                        /\ UNCHANGED ret
              ELSE /\ frame' = [frame EXCEPT
                                   !.visiting = @ \ {top.label},
                                   !.visited = @ \cup {top.label},
                                   !.result = VisitPush(@, Val(expr)),
                                   !.stack = Return(@),
                                   !.pc = PcAfterReturn(frame.stack)]
                   /\ UNCHANGED ret
    /\ UNCHANGED <<fn, args, engineAllVars, trainVars, calcVars, stepVars>>

\* one round of the loop of evaluateAllExpressions (lines 107-113), and the
\* return of values (line 115)
EvaluateNext ==
    /\ fn = "evaluateAllExpressions"
    /\ frame.pc = "evaluate"
    /\ LET sortedExprs == Val(frame.sortedExprs)
       IN  IF frame.ev <= Len(sortedExprs)
           THEN LET expr == sortedExprs[frame.ev]
                    value == IF expr.text # <<>>
                             THEN EvaluateExpression(expr.text, args.x, frame.values)
                             ELSE None
                IN  /\ frame' = [frame EXCEPT
                                    !.values = (ToLowerCase(expr.label) :> value) @@ @,
                                    !.ev = @ + 1]
                    /\ UNCHANGED ret
           ELSE /\ frame' = [frame EXCEPT !.pc = "done"]
                /\ ret' = Some(Returned(frame.values))
    /\ UNCHANGED <<fn, args, engineAllVars, trainVars, calcVars, stepVars>>

GraphNext ==
    \/ SortLoop
    \/ VisitEnter
    \/ VisitRefs
    \/ EvaluateNext

GraphSpec == GraphInit /\ [][GraphNext]_vars

\* the calls run to their end: every statement that can run does
GraphLiveSpec == GraphSpec /\ WF_vars(GraphNext)

\* the labels the expression of label a refers to
RefsOf(expressions, a) ==
    LET expr == LabelToExpr(expressions, a)
    IN  IF IsDef(expr)
        THEN {r \in LabelNames :
                 \E i \in 1..Len(Val(expr).text) : ToLowerCase(Val(expr).text[i]) = r}
        ELSE {}

RECURSIVE Reaches(_, _, _, _)
\* there is a chain of at most n references from a to b
Reaches(expressions, a, b, n) ==
    /\ n > 0
    /\ \/ b \in RefsOf(expressions, a)
       \/ \E c \in RefsOf(expressions, a) : Reaches(expressions, c, b, n - 1)

\* the references of the list form an acyclic graph
Acyclic(expressions) ==
    \A i \in 1..Len(expressions) :
       ~Reaches(expressions, expressions[i].label, expressions[i].label,
                Len(expressions))

RECURSIVE ValueOf(_, _, _, _)
\* what the expression of this label denotes at x, whatever the order of the
\* list: null for an empty text, for a reference to a label of no expression
\* and for a reference to a null value; n bounds the chain of references
ValueOf(expressions, label, x, n) ==
    LET expr == LabelToExpr(expressions, label)
    IN  IF n = 0 \/ ~IsDef(expr) THEN None
        ELSE IF Val(expr).text = <<>> THEN None
        ELSE LET refs == RefsOf(expressions, label)
                 deps == [r \in refs |-> ValueOf(expressions, r, x, n - 1)]
             IN  IF \E r \in refs : deps[r] = None THEN None
                 ELSE Some(SumTerms([i \in 1..Len(Val(expr).text) |->
                                        ToLowerCase(Val(expr).text[i])],
                                    x, deps, Len(Val(expr).text)))

\* the sequence is a permutation of the list
IsPermutation(result, expressions) ==
    /\ Len(result) = Len(expressions)
    /\ \A i \in 1..Len(expressions) :
          Cardinality({j \in 1..Len(result) : result[j] = expressions[i]}) = 1

\* C19: for expressions with unique labels whose references form an acyclic
\* graph, topologicalSort returns a permutation of the input in which every
\* expression appears after every expression it references, and
\* evaluateAllExpressions computes each expression from the values of its
\* dependencies at the same x, whatever the order of the input list.
C19_SortedBeforeUse ==
    (IsDef(frame.sortedExprs) /\ Acyclic(args.expressions))
    => LET sortedExprs == Val(frame.sortedExprs)
       IN  /\ IsPermutation(sortedExprs, args.expressions)
           /\ \A i, j \in 1..Len(sortedExprs) :
                 sortedExprs[j].label \in RefsOf(args.expressions, sortedExprs[i].label)
                 => j < i
           /\ Called("evaluateAllExpressions")
              => /\ Val(ret).kind = "return"
                 /\ DOMAIN Val(ret).value =
                        {args.expressions[i].label : i \in 1..Len(args.expressions)}
                 /\ \A l \in DOMAIN Val(ret).value :
                       Val(ret).value[l] =
                           ValueOf(args.expressions, l, args.x, Len(args.expressions))

\* C19, the case: y2 = y1+1 listed before y1 = x^2, at x = 3, has given
\* y1 = 9 and y2 = 10
C19_Witness ==
    /\ Called("evaluateAllExpressions")
    /\ args.expressions = <<[label |-> "y2", text |-> <<"y1", "1">>],
                            [label |-> "y1", text |-> <<"x^2">>]>>
    /\ args.x = 3
    /\ Val(ret).value["y1"] = Some(9)
    /\ Val(ret).value["y2"] = Some(10)

\* C20: topologicalSort terminates without raising an error on every
\* reference graph, including self-references and cycles of any length, and
\* returns each uniquely-labelled expression exactly once.
C20_SortTerminates ==
    <>[](/\ IsDef(frame.sortedExprs)
         /\ IsPermutation(Val(frame.sortedExprs), args.expressions)
         /\ (IsDef(ret) => Val(ret).kind = "return"))

\* C20, the case: topologicalSort has returned on three expressions that
\* refer to each other in a cycle of length three
C20_Witness ==
    /\ fn = "evaluateAllExpressions"
    /\ IsDef(frame.sortedExprs)
    /\ Len(Val(frame.sortedExprs)) = 3
    /\ Len(args.expressions) = 3
    /\ ~Acyclic(args.expressions)
    /\ \A i \in 1..3 :
          /\ Cardinality(RefsOf(args.expressions, args.expressions[i].label)) = 1
          /\ args.expressions[i].label \notin
                 RefsOf(args.expressions, args.expressions[i].label)
    /\ \A i \in 1..3 :
          Reaches(args.expressions, args.expressions[i].label,
                  args.expressions[i].label, 3)


\* C21: evaluateAllExpressions never throws, and an expression whose text
\* references a label whose value is null (empty text, failed evaluation,
\* no expression of that label, or a member of a reference cycle) itself
\* evaluates to null, never to a number.
C21_UndefinedDependencyIsUndefined ==
    (fn = "evaluateAllExpressions" /\ IsDef(ret))
    => /\ Val(ret).kind = "return"
       /\ LET values == Val(ret).value
          IN  \A l \in DOMAIN values :
                 /\ (\E r \in RefsOf(args.expressions, l) :
                        r \notin DOMAIN values \/ values[r] = None)
                    => values[l] = None
                 /\ Reaches(args.expressions, l, l, Len(args.expressions))
                    => values[l] = None

\* C21, the case: y1 is empty, y2 = y1+1 refers to it, and y3 = y3+1 refers
\* to itself; all three have evaluated to null
C21_Witness ==
    /\ Called("evaluateAllExpressions")
    /\ args.expressions = <<[label |-> "y2", text |-> <<"y1", "1">>],
                            [label |-> "y1", text |-> <<>>],
                            [label |-> "y3", text |-> <<"y3", "1">>]>>
    /\ Val(ret).value = [l \in LabelNames |-> None]


(***************************************************************************)
(* The expressions and parameters of the GraphCalculator component         *)
(* (src/components/GraphCalculator.tsx): extractParameters (lines 97-122), *)
(* allDetectedParams and the parameter effect (lines 334-376), and the     *)
(* handlers of lines 970-1001 and 1248-1295, and the animation of the      *)
(* parameters (lines 296-298 and 501-543).  A handler's action includes    *)
(* the render that ends its event and the effects after that render; what  *)
(* an effect or the animation's timer sets is queued and is rendered by a  *)
(* later task (CalcRender).  The numbers of a parameter are counted in     *)
(* thousandths, with exact decimal arithmetic.                             *)
(***************************************************************************)
\* events on the calculator: user events and frames of the animation
MaxCalcEvents == 5

\* the labels addExpression may give: labelCounter stays below this
MaxLabel == 4

\* `y${n}`
LabelOf(n) == <<"y1", "y2", "y3", "y4">>[n]

\* the texts a user types: "", "x^2", "a*x", "A*x+b1", "tanh(x)", "y1+a"
CalcTexts ==
    {<<>>, <<"x^2">>, <<"a", "x">>, <<"A", "x", "b1">>, <<"tanh", "x">>,
     <<"y1", "a">>}

\* the values a user gives a parameter: 1, 2, 0.345 (0.345 + 0.1 is the
\* double below 0.445) and 9.95
ParameterValues == {Milli(1), Milli(2), 345, 9950}

\* the names extractParameters finds in one term: the function names and
\* y<digits> are blanked first ("tan" is tried before "tanh", which leaves
\* "h"), then single letters other than x, e, y and letter-digit names other
\* than x.., y.. are taken, in lower case, unless reserved
TermParameters(term) ==
    IF term \in {"a", "A"} THEN {"a"}
    ELSE IF term = "b1" THEN {"b1"}
    ELSE IF term = "tanh" THEN {"h"}
    ELSE {}

\* extractParameters(expr, expressionLabels), as a set
ExtractParameters(text) ==
    UNION {TermParameters(text[i]) : i \in 1..Len(text)}

\* [...allParams].sort() for these names
SortNames(names) ==
    SelectSeq(<<"a", "b1", "h">>, LAMBDA name : name \in names)

\* allDetectedParams (lines 340-348): from all expressions, visible or not
AllDetectedParams(exprs) ==
    SortNames(UNION {IF exprs[i].text # <<>>
                     THEN ExtractParameters(exprs[i].text) ELSE {} :
                     i \in 1..Len(exprs)})

ParameterNames(params) == {params[i].name : i \in 1..Len(params)}

\* { ...dirs, [name]: direction }
WithDirection(dirs, name, direction) ==
    [n \in DOMAIN dirs \cup {name} |-> IF n = name THEN direction ELSE dirs[n]]

\* the directions after the setAnimationDirections call the animation's
\* updater makes for a parameter whose newValue is given (lines 529-535)
BounceDirection(dirs, param, newValue) ==
    IF DoubleAtLeast(newValue, param.max)
    THEN WithDirection(dirs, param.name, -1)
    ELSE IF DoubleAtMost(newValue, param.min)
    THEN WithDirection(dirs, param.name, 1)
    ELSE dirs

RECURSIVE BounceDirections(_, _, _, _)
\* the directions after the setAnimationDirections calls the animation's
\* updater makes for prev[i..] (lines 530-536), one parameter after another
BounceDirections(action, prev, dirs, i) ==
    IF i > Len(prev) THEN dirs
    ELSE BounceDirections(
             action, prev,
             IF prev[i].name \notin action.animating THEN dirs
             ELSE BounceDirection(dirs, prev[i],
                                  AnimationNewValue(prev[i], action.dirs)),
             i + 1)

\* the effect of lines 358-376 in a render whose parameters are params:
\* the updaters it hands to setParameters
ParameterEffect(exprs, params) ==
    LET detected == AllDetectedParams(exprs)
        existingNames == ParameterNames(params)
        newParams == SelectSeq(detected, LAMBDA name : name \notin existingNames)
        usedParams == {detected[i] : i \in 1..Len(detected)}
    IN  (IF Len(newParams) > 0 THEN <<AddParameters(newParams)>> ELSE <<>>)
        \o <<FilterParameters(usedParams)>>

\* the component after its first render, its effects and their render
\* (lines 282-286)
CalcInit ==
    /\ calcExpressions = <<[id |-> 1, label |-> "y1", text |-> <<"x^2">>,
                            visible |-> TRUE]>>
    /\ labelCounter = 2
    /\ parameters = Hook(<<>>)
    /\ animatingParams = {}
    /\ animationDirections = <<>>
    /\ calcEvents = 0
    /\ calcLast = [op |-> "mount"]
    /\ EngineOff
    /\ TrainOff
    /\ CallOff
    /\ StepOff

\* an event
CalcEvent ==
    /\ calcEvents < MaxCalcEvents
    /\ calcEvents' = calcEvents + 1
    /\ UNCHANGED <<engineAllVars, trainVars, callVars, stepVars>>

\* setExpressions(exprs) in a handler, the render that ends the event, and
\* the parameter effect after it, which reads the parameters of that render
SetExpressions(op, exprs) ==
    /\ calcExpressions' = exprs
    /\ LET render == AfterEvent(parameters, <<>>)
       IN  parameters' = Queued(render,
                                         ParameterEffect(exprs, render.state))
    /\ UNCHANGED <<animatingParams, animationDirections>>
    /\ calcLast' = [op |-> op]

\* addExpression (lines 970-979); the new id is unlike the others
AddExpression ==
    /\ CalcEvent
    /\ labelCounter < MaxLabel
    /\ SetExpressions("addExpression",
                      Append(calcExpressions,
                             [id |-> labelCounter, label |-> LabelOf(labelCounter),
                              text |-> <<>>, visible |-> TRUE]))
    /\ labelCounter' = labelCounter + 1

\* updateExpression(id, text) (lines 982-984)
UpdateExpression(id, text) ==
    /\ CalcEvent
    /\ SetExpressions("updateExpression",
                      [i \in 1..Len(calcExpressions) |->
                          IF calcExpressions[i].id = id
                          THEN [calcExpressions[i] EXCEPT !.text = text]
                          ELSE calcExpressions[i]])
    /\ UNCHANGED labelCounter

\* toggleVisibility(id) (lines 992-994)
ToggleVisibility(id) ==
    /\ CalcEvent
    /\ SetExpressions("toggleVisibility",
                      [i \in 1..Len(calcExpressions) |->
                          IF calcExpressions[i].id = id
                          THEN [calcExpressions[i] EXCEPT !.visible = ~@]
                          ELSE calcExpressions[i]])
    /\ UNCHANGED labelCounter

\* deleteExpression(id) (lines 997-1001): the last expression stays, and
\* nothing is set
DeleteExpression(id) ==
    /\ CalcEvent
    /\ IF Len(calcExpressions) > 1
       THEN SetExpressions("deleteExpression",
                           SelectSeq(calcExpressions, LAMBDA e : e.id # id))
       ELSE /\ UNCHANGED <<calcExpressions, parameters, animatingParams,
                            animationDirections>>
            /\ calcLast' = [op |-> "deleteExpression"]
    /\ UNCHANGED labelCounter

\* visibleParams (lines 351-359) and displayedParameters (lines 379-382):
\* the names of the parameters of the render that visible expressions
\* refer to; the controls of these parameters only are rendered
DisplayedParameterNames ==
    ParameterNames(parameters.state) \cap
    UNION {IF calcExpressions[i].visible /\ calcExpressions[i].text # <<>>
           THEN ExtractParameters(calcExpressions[i].text) ELSE {} :
           i \in 1..Len(calcExpressions)}

\* an event that changes parameters only
ParameterEvent(op) ==
    /\ CalcEvent
    /\ calcLast' = [op |-> op]
    /\ UNCHANGED <<calcExpressions, labelCounter>>

\* the number input and the slider of a parameter (lines 1251-1276)
SetParameterValue(name, newVal) ==
    /\ ParameterEvent("setParameterValue")
    /\ parameters' = AfterEvent(parameters,
                                <<SetValue(name, newVal)>>)
    /\ UNCHANGED <<animatingParams, animationDirections>>

\* the button under the slider that lowers min by 10 (lines 1279-1285)
LowerParameterMin(name) ==
    /\ ParameterEvent("lowerParameterMin")
    /\ parameters' = AfterEvent(parameters, <<LowerMin(name)>>)
    /\ UNCHANGED <<animatingParams, animationDirections>>

\* the button under the slider that raises max by 10 (lines 1286-1293)
RaiseParameterMax(name) ==
    /\ ParameterEvent("raiseParameterMax")
    /\ parameters' = AfterEvent(parameters, <<RaiseMax(name)>>)
    /\ UNCHANGED <<animatingParams, animationDirections>>

\* toggleAnimation(paramName) (lines 501-516), on the play button
ToggleAnimation(name) ==
    /\ ParameterEvent("toggleAnimation")
    /\ IF name \in animatingParams
       THEN /\ animatingParams' = animatingParams \ {name}
            /\ UNCHANGED animationDirections
       ELSE /\ animatingParams' = animatingParams \cup {name}
            /\ animationDirections' =
                  WithDirection(animationDirections, name,
                                AnimationDirection(animationDirections, name))
    /\ parameters' = AfterEvent(parameters, <<>>)

\* the interval callback of the animation (lines 522-540), every 50 ms while
\* a parameter is animated: its updater is queued
AnimationFrame ==
    /\ animatingParams # {}
    /\ ParameterEvent("animationFrame")
    /\ parameters' = Queued(parameters,
                                     <<Animate(animatingParams, animationDirections)>>)
    /\ UNCHANGED <<animatingParams, animationDirections>>

\* the directions after the render of the queued updates of h: the
\* animation's updaters set them as they run, each on the parameters the
\* updates before it have left
RenderDirections(h, dirs) ==
    LET r[i \in 0..Len(h.queue)] ==
            IF i = 0 THEN [state |-> h.base, dirs |-> dirs]
            ELSE LET p == r[i - 1]
                     action == h.queue[i].action
                 IN  [state |-> ApplyParameters(action, p.state),
                      dirs |-> IF action.kind = "animate"
                               THEN BounceDirections(action, p.state, p.dirs, 1)
                               ELSE p.dirs]
    IN  r[Len(h.queue)].dirs

\* a task of React's scheduler: the queued updates of parameters are
\* rendered; the animated parameters move and bounce at their bounds
CalcRender ==
    /\ parameters.queue # <<>>
    /\ parameters' = RenderHook(parameters, FALSE)
    /\ animationDirections' = RenderDirections(parameters, animationDirections)
    /\ calcLast' = [op |-> "render"]
    /\ UNCHANGED <<calcExpressions, labelCounter, animatingParams, calcEvents,
                   engineAllVars, trainVars, callVars, stepVars>>

ExpressionIds == {calcExpressions[i].id : i \in 1..Len(calcExpressions)}

CalcNext ==
    \/ AddExpression
    \/ \E id \in ExpressionIds, text \in CalcTexts : UpdateExpression(id, text)
    \/ \E id \in ExpressionIds : ToggleVisibility(id)
    \/ \E id \in ExpressionIds : DeleteExpression(id)
    \/ \E name \in DisplayedParameterNames, newVal \in ParameterValues :
          SetParameterValue(name, newVal)
    \/ \E name \in DisplayedParameterNames : LowerParameterMin(name)
    \/ \E name \in DisplayedParameterNames : RaiseParameterMax(name)
    \/ \E name \in DisplayedParameterNames : ToggleAnimation(name)
    \/ AnimationFrame
    \/ CalcRender

CalcSpec == CalcInit /\ [][CalcNext]_vars

\* the names extractParameters finds in the expressions
DetectedNames(exprs) ==
    UNION {ExtractParameters(exprs[i].text) : i \in 1..Len(exprs)}

TotalSteps == NumLayers + (NumLayers + 1) + 1

\* canGoForward (lines 94-100 and 120): the Next Step button is enabled
CanGoForward == currentStep.state < TotalSteps - 1 /\ Len(dataPoints) > 0

\* canGoBack (lines 94-100 and 121): the Previous button is enabled
CanGoBack == currentStep.state > 0 /\ Len(dataPoints) > 0

\* the handler's updates of currentStep, and the render that ends the event
SetCurrentStepInEvent(actions) ==
    currentStep' = AfterEvent(currentStep, actions)

\* bounds.xMax for the one data point (x, y) (lines 408-426): the range
\* xMax - xMin is 0 and is taken for 10, and xMax is x + 10 * 0.2
BoundsXMax(x) == x + 2

\* computePredictionCurve(engine, bounds) (lines 430-458): network.forward
\* runs on 201 inputs from bounds.xMin to bounds.xMax; every call overwrites
\* what the one before it left in the layers, so the layers afterwards are
\* those of the last call
ComputePredictionCurve(ls, x) ==
    NetworkForward(ls, Scalar(BoundsXMax(x))).layers

\* at most MaxStepEvents user events and interval ticks happen on the
\* stepping controls
MaxStepEvents == 8

\* a user event on the stepping controls or the data, or a tick of the
\* auto-step interval
StepEvent ==
    /\ calls < MaxStepEvents
    /\ calls' = calls + 1
    /\ UNCHANGED <<networkPrototype, trainVars, callVars, calcVars>>

\* a data point is set (setDataPoints(points), lines 340-400, rendered at
\* once).  The effect of lines 82-90 calls setData on the engine and queues
\* setCurrentStep(0), and the effect of lines 461-468 computes the
\* prediction curve on the engine's network
SetDataPoints(x, y) ==
    /\ dataPoints' = <<[x |-> x, y |-> y]>>
    /\ SetDataAssignments(x, y)
    /\ layers' = ComputePredictionCurve(layers, x)
    /\ currentStep' = SetState(RenderHook(currentStep, TRUE),
                               "default", SetTo(0))
    /\ UNCHANGED isAutoStepping

\* clearAllData (lines 403-405): setDataPoints([]), rendered at once.  The
\* effect of lines 82-90 returns at once, the engine keeps the data it was
\* given, and the prediction curve is emptied without a call on the network
ClearAllData ==
    /\ dataPoints' = <<>>
    /\ SetCurrentStepInEvent(<<>>)
    /\ UNCHANGED <<engineVars, last, since, iter, undoFrom, isAutoStepping>>

RECURSIVE BackwardDownTo(_, _, _, _)
\* the loop of lines 171-177: Layer.backward on layers i, i-1, .. (numbered
\* from 0) until the layer numbered stop has been done
BackwardDownTo(ls, i, grad, stop) ==
    IF i < 0 THEN ls
    ELSE LET b == LayerBackward(ls[i + 1], grad)
             after == [ls EXCEPT ![i + 1] = b.layer]
         IN  IF i = stop THEN after
             ELSE BackwardDownTo(after, i - 1, b.out, stop)

\* the tensors dataToTensors makes of the data points (lines 69-79 and 135)
DataInput == Scalar(dataPoints[1].x)
DataTarget == Scalar(dataPoints[1].y)

\* the backward branch of handleNextStep (lines 162-181): a forward pass
\* and a backward pass on the network itself; no snapshot is taken
NextStepBackward ==
    LET f == NetworkForward(layers, DataInput)
        predictions == f.outs[Len(f.outs)]
        lossGrad == MSEGradient(predictions, DataTarget)
        stop == NumLayers - 1 - (currentStep.state - NumLayers - 2)
    IN  /\ layers' = BackwardDownTo(f.layers, NumLayers - 1, lossGrad, stop)
        /\ UNCHANGED <<optimizer, stepHistory, currentStepIndex, currentInput,
                       currentTarget, forwardActivations, currentLoss,
                       lossGradient, since>>
        /\ last' = Call("handleNextStep/backward", stop, "ok", "")
        /\ iter' = NoIter
        /\ undoFrom' = None

\* the branch of handleNextStep (lines 143-185) for the currentStep of the
\* render its closure belongs to
NextStepBranch ==
    IF currentStep.state < NumLayers
    THEN StepForwardLayer(currentStep.state)
    ELSE IF currentStep.state = NumLayers
    THEN StepComputeLoss
    ELSE IF currentStep.state = NumLayers + 1
    THEN StepBackwardLossGradient
    ELSE IF currentStep.state < NumLayers + 1 + (NumLayers + 1)
    THEN NextStepBackward
    ELSE IF currentStep.state = NumLayers + 1 + (NumLayers + 1)
    THEN \E lr \in LearningRates : StepUpdateWeights(lr)
    ELSE UNCHANGED <<engineVars, last, since, iter, undoFrom>>

\* the updates handleNextStep makes of currentStep: prev => prev + 1 at the
\* end of the branch it took; an error of the engine is caught (line 186)
\* before the update is made
NextStepUpdates ==
    IF /\ currentStep.state <= NumLayers + 1 + (NumLayers + 1)
       /\ last'.result = "ok"
    THEN <<[kind |-> "increment"]>>
    ELSE <<>>

\* a click on Next Step while it is enabled: handleNextStep with the
\* currentStep of the committed render, and the render of its update
HandleNextStep ==
    /\ CanGoForward
    /\ NextStepBranch
    /\ SetCurrentStepInEvent(NextStepUpdates)
    /\ UNCHANGED <<dataPoints, isAutoStepping>>

\* the interval of the auto-step effect fires (lines 220-237): the interval
\* exists while the committed render has isAutoStepping and canGoForward,
\* and it calls the handleNextStep of that render.  Outside a user event
\* the update of currentStep waits for a later render
AutoStepTick ==
    /\ isAutoStepping
    /\ CanGoForward
    /\ NextStepBranch
    /\ currentStep' = Queued(currentStep, NextStepUpdates)
    /\ UNCHANGED <<dataPoints, isAutoStepping>>

\* a click on Auto Step or on Stop Auto (part_003, line 283):
\* handleAutoStep(!isAutoStepping)
HandleAutoStep ==
    /\ isAutoStepping' = ~isAutoStepping
    /\ SetCurrentStepInEvent(<<>>)
    /\ UNCHANGED <<engineVars, last, since, iter, undoFrom, dataPoints>>

\* a click on Previous while it is enabled: handlePreviousStep
HandlePreviousStep ==
    /\ CanGoBack
    /\ Undo
    /\ SetCurrentStepInEvent(IF last'.result = "true"
                             THEN <<[kind |-> "decrement"]>> ELSE <<>>)
    /\ UNCHANGED <<dataPoints, isAutoStepping>>

\* a click on Reset: handleReset calls setData with the data points when
\* there are any (no effect runs: neither the engine nor the data points
\* change), setCurrentStep(0) and setIsAutoStepping(false)
HandleReset ==
    /\ IF Len(dataPoints) > 0
       THEN SetData(dataPoints[1].x, dataPoints[1].y)
       ELSE UNCHANGED <<engineVars, last, since, iter, undoFrom>>
    /\ SetCurrentStepInEvent(<<SetTo(0)>>)
    /\ isAutoStepping' = FALSE
    /\ UNCHANGED dataPoints

\* a task of React's scheduler: the queued updates of currentStep are
\* rendered
StepRender ==
    /\ currentStep.queue # <<>>
    /\ currentStep' = RenderHook(currentStep, FALSE)
    /\ UNCHANGED <<engineAllVars, trainVars, callVars, calcVars, dataPoints,
                   isAutoStepping>>

StepNext ==
    \/ \E x \in TrainXs, y \in TrainYs : StepEvent /\ SetDataPoints(x, y)
    \/ StepEvent /\ ClearAllData
    \/ StepEvent /\ HandleNextStep
    \/ StepEvent /\ AutoStepTick
    \/ StepEvent /\ HandleAutoStep
    \/ StepEvent /\ HandlePreviousStep
    \/ StepEvent /\ HandleReset
    \/ StepRender

StepSpec == SteppingInit /\ [][StepNext]_vars

\* A session driven through Next Step alone: the data points are given
\* once, and from then on the only event is a click on Next Step while the
\* button is enabled.  The clicks are not counted: the session is as long as
\* the button allows.
StepSession == UNCHANGED <<calls, networkPrototype, trainVars, callVars, calcVars>>

NextStepOnlyNext ==
    \/ \E x \in TrainXs, y \in TrainYs :
          Len(dataPoints) = 0 /\ StepSession /\ SetDataPoints(x, y)
    \/ StepSession /\ HandleNextStep
    \/ StepRender

\* the user goes on clicking Next Step while the button is enabled, and
\* React renders what is queued
NextStepOnlySpec ==
    SteppingInit /\ [][NextStepOnlyNext]_vars /\ WF_vars(NextStepOnlyNext)

\* C23: driving the engine only through the Next Step control, a stepping
\* session that starts at step 0 eventually executes stepUpdateWeights.
C23_NextStepReachesUpdate == <>(last.op = "stepUpdateWeights")


(***************************************************************************)
(* Further properties of the DebugEngine.                                  *)
(***************************************************************************)
\* C24: in every reachable engine state, the snapshot stored at position k
\* of the step history (from 0) has stepNumber k, so stepNumber is strictly
\* increasing along the history, also after undo followed by new steps.
C24_StepNumberIsPosition ==
    \A k \in 1..Len(stepHistory) : stepHistory[k].stepNumber = k - 1

\* C24, the case: a step taken after undo has replaced the snapshots that
\* could be redone, in a history of three snapshots or more
C24_Witness ==
    /\ last.op \in StepOps
    /\ last.result = "ok"
    /\ last.cut > 0
    /\ Len(stepHistory) >= 3


\* C28: in every reachable engine state the step index satisfies
\* -1 <= currentStepIndex <= stepHistory.length - 1, and getStepHistory()
\* returns exactly currentStepIndex + 1 snapshots.
C28_StepIndexInRange ==
    /\ -1 <= currentStepIndex
    /\ currentStepIndex <= Len(stepHistory) - 1
    /\ Len(GetStepHistory) = currentStepIndex + 1

\* C28, the case: undo() has moved the index below the end of a history that
\* keeps the snapshots it can redo
C28_Witness ==
    /\ last.op = "undo"
    /\ last.result = "true"
    /\ 0 <= currentStepIndex
    /\ currentStepIndex < Len(stepHistory) - 1
    /\ Len(GetStepHistory) < Len(stepHistory)


\* C29: undo() and redo() change only the step index, the layers' weights
\* and biases and the forward-activation cache; the optimizer's running
\* state, the cached loss, the cached loss gradient and every layer's cached
\* weightGrad/biasGrad (and every other field) are left unchanged.
C29_UndoRedoFrame ==
    [][(Undo \/ Redo)
       => /\ UNCHANGED <<optimizer, currentLoss, lossGradient, stepHistory,
                         currentInput, currentTarget>>
          /\ Len(layers') = Len(layers)
          /\ \A i \in 1..Len(layers) :
                /\ layers'[i].weightGrad = layers[i].weightGrad
                /\ layers'[i].biasGrad = layers[i].biasGrad
                /\ [layers'[i] EXCEPT !.weights = layers[i].weights,
                                      !.bias = layers[i].bias] = layers[i]]_vars

\* C29, the case: undo() has put back other weights in an engine that holds
\* a loss, a loss gradient and a layer's gradients
C29_Witness ==
    /\ last.op = "undo"
    /\ last.result = "true"
    /\ IsDef(undoFrom)
    /\ Val(undoFrom).state # NetworkGetState(layers)
    /\ IsDef(currentLoss)
    /\ IsDef(lossGradient)
    /\ \E i \in 1..Len(layers) :
          IsDef(layers[i].weightGrad) /\ IsDef(layers[i].biasGrad)


\* C27: whenever stepUpdateWeights throws in a reachable engine state, it
\* has modified no layer's weights or bias and no optimizer state, has
\* appended no snapshot and has left the step index unchanged.
C27_UpdateThrowsChangesNothing ==
    [][((\E lr \in LearningRates : StepUpdateWeights(lr))
        /\ last'.op = "stepUpdateWeights" /\ last'.result = "throw")
       => UNCHANGED <<layers, optimizer, stepHistory, currentStepIndex>>]_vars


(***************************************************************************)
(* The running state of Adam and RMSprop (src/lib/optimizers.ts) under the *)
(* DebugEngine's update loops.  Of the network only the layers' shapes and *)
(* which layers hold gradients matter here.  A moment entry is the         *)
(* sequence of the layers whose gradients have been folded into it since   *)
(* it was created from zeros: mNew = beta1 * m + (1 - beta1) * gradients   *)
(* reads the entry and stores one with the layer's gradients folded in.    *)
(* args is the network's configuration, frame the engine: the optimizer,   *)
(* the layers that hold gradients, the number of update() and updateBias() *)
(* calls and the layers updated since the optimizer was last reset, and    *)
(* the optimizer calls of the last operation with the t and the entry each *)
(* of them used.                                                           *)
(***************************************************************************)
\* at most MaxOptimizerCalls operations are called on an engine
MaxOptimizerCalls == 3

\* the neurons of the layers of the networks considered, on InputSize inputs
Architectures == {<<1>>, <<1, 1>>, <<2, 1>>, <<2, 2>>, <<1, 1, 1>>}
InputSize == 1

\* new Network(layerConfigs, lossFunction, inputSize): the shape of each
\* layer's weights (outputSize x inputSize) and the length of its bias
LayerShapes(neurons) ==
    [i \in 1..Len(neurons) |->
        [rows |-> neurons[i],
         cols |-> IF i = 1 THEN InputSize ELSE neurons[i - 1],
         bias |-> neurons[i]]]

\* getKey(weights), `${weights.rows}x${weights.cols}`, and
\* getBiasKey(bias), `${bias.length}`, as the numbers they are made of
GetKey(shape) == <<shape.rows, shape.cols>>
GetBiasKey(shape) == <<shape.bias>>

\* Map.prototype.get after the has() test: the entry, or the zeros it is
\* created from
MapGet(map, key) == IF key \in DOMAIN map THEN map[key] ELSE <<>>

\* Map.prototype.set
MapSet(map, key, value) ==
    [k \in DOMAIN map \cup {key} |-> IF k = key THEN value ELSE map[k]]

\* new Adam() or new RMSprop() or new SGD() followed by reset()
ResetOptimizer(type) ==
    [type |-> type, t |-> 0,
     m |-> [k \in {} |-> <<>>], v |-> [k \in {} |-> <<>>],
     biasM |-> [k \in {} |-> <<>>], biasV |-> [k \in {} |-> <<>>]]

\* Adam.update of layer i's weights: the optimizer afterwards, and the t and
\* the entry the call used
AdamUpdate(opt, shape, i) ==
    LET key == GetKey(shape)
        t == opt.t + 1
    IN  [opt |-> [opt EXCEPT !.t = t,
                             !.m = MapSet(@, key, Append(MapGet(@, key), i)),
                             !.v = MapSet(@, key, Append(MapGet(@, key), i))],
         used |-> [call |-> "update", layer |-> i, t |-> t, key |-> key,
                   read |-> MapGet(opt.m, key)]]

\* an Adam.updateBias sharing the step counter of update
AdamUpdateBiasSameStep(opt, shape, i) ==
    LET key == GetBiasKey(shape)
    IN  [opt |-> [opt EXCEPT !.biasM = MapSet(@, key, Append(MapGet(@, key), i)),
                             !.biasV = MapSet(@, key, Append(MapGet(@, key), i))],
         used |-> [call |-> "updateBias", layer |-> i, t |-> opt.t, key |-> key,
                   read |-> MapGet(opt.biasM, key)]]

\* Adam.updateBias of layer i's bias
AdamUpdateBias(opt, shape, i) ==
    LET key == GetBiasKey(shape)
        t == opt.t + 1
    IN  [opt |-> [opt EXCEPT !.t = t,
                             !.biasM = MapSet(@, key, Append(MapGet(@, key), i)),
                             !.biasV = MapSet(@, key, Append(MapGet(@, key), i))],
         used |-> [call |-> "updateBias", layer |-> i, t |-> t, key |-> key,
                   read |-> MapGet(opt.biasM, key)]]

\* RMSprop.update of layer i's weights
RMSpropUpdate(opt, shape, i) ==
    LET key == GetKey(shape)
    IN  [opt |-> [opt EXCEPT !.v = MapSet(@, key, Append(MapGet(@, key), i))],
         used |-> [call |-> "update", layer |-> i, t |-> 0, key |-> key,
                   read |-> MapGet(opt.v, key)]]

\* RMSprop.updateBias of layer i's bias
RMSpropUpdateBias(opt, shape, i) ==
    LET key == GetBiasKey(shape)
    IN  [opt |-> [opt EXCEPT !.biasV = MapSet(@, key, Append(MapGet(@, key), i))],
         used |-> [call |-> "updateBias", layer |-> i, t |-> 0, key |-> key,
                   read |-> MapGet(opt.biasV, key)]]

\* an optimizer that files every layer's weights under a key of its own
MomentsUpdatePerLayer(opt, shape, i) ==
    IF opt.type = "adam" THEN AdamUpdate(opt, [shape EXCEPT !.rows = 10 * i], i)
    ELSE IF opt.type = "rmsprop"
    THEN RMSpropUpdate(opt, [shape EXCEPT !.rows = 10 * i], i)
    ELSE [opt |-> opt,
          used |-> [call |-> "update", layer |-> i, t |-> 0,
                    key |-> GetKey(shape), read |-> <<>>]]

\* this.optimizer.update(layer.weights, layer.weightGrad, learningRate)
MomentsUpdate(opt, shape, i) ==
    IF opt.type = "adam" THEN AdamUpdate(opt, shape, i)
    ELSE IF opt.type = "rmsprop" THEN RMSpropUpdate(opt, shape, i)
    ELSE [opt |-> opt,
          used |-> [call |-> "update", layer |-> i, t |-> 0,
                    key |-> GetKey(shape), read |-> <<>>]]

\* this.optimizer.updateBias(layer.bias, layer.biasGrad, learningRate)
MomentsUpdateBias(opt, shape, i) ==
    IF opt.type = "adam" THEN AdamUpdateBias(opt, shape, i)
    ELSE IF opt.type = "rmsprop" THEN RMSpropUpdateBias(opt, shape, i)
    ELSE [opt |-> opt,
          used |-> [call |-> "updateBias", layer |-> i, t |-> 0,
                    key |-> GetBiasKey(shape), read |-> <<>>]]

\* the two optimizer calls on layer i (debug-engine.ts lines 387-388 and
\* 541-542), counted where they are made
UpdateLayerMoments(st, shapes, i) ==
    LET w == MomentsUpdate(st.opt, shapes[i], i)
        b == MomentsUpdateBias(w.opt, shapes[i], i)
    IN  [st EXCEPT !.opt = b.opt,
                   !.updates = @ + 1,
                   !.biasUpdates = @ + 1,
                   !.updated = @ \cup {i},
                   !.log = @ \o <<w.used, b.used>>]

RECURSIVE StepUpdateMomentsFrom(_, _, _)
\* the loop of stepUpdateWeights (lines 376-405) from layer i on: it throws
\* at a layer without gradients
StepUpdateMomentsFrom(st, shapes, i) ==
    IF i > Len(shapes) THEN st
    ELSE IF i \notin st.grads THEN [st EXCEPT !.threw = TRUE]
    ELSE StepUpdateMomentsFrom(UpdateLayerMoments(st, shapes, i), shapes, i + 1)

RECURSIVE TrainUpdateMomentsFrom(_, _, _)
\* the loop of trainOneEpoch (lines 539-544) from layer i on: it skips a
\* layer without gradients
TrainUpdateMomentsFrom(st, shapes, i) ==
    IF i > Len(shapes) THEN st
    ELSE IF i \notin st.grads THEN TrainUpdateMomentsFrom(st, shapes, i + 1)
    ELSE TrainUpdateMomentsFrom(UpdateLayerMoments(st, shapes, i), shapes, i + 1)

\* the engine at the start of an operation: nothing thrown, no optimizer
\* call made
MomentsCall(op) ==
    [frame EXCEPT !.calls = @ + 1, !.threw = FALSE, !.log = <<>>,
                  !.tBefore = frame.opt.t, !.op = op]

\* new DebugEngine(config), lines 30-44
MomentsInit ==
    /\ fn = "DebugEngine"
    /\ \E neurons \in Architectures, type \in OptimizerTypes :
          /\ args = [neurons |-> neurons, shapes |-> LayerShapes(neurons)]
          /\ frame = [opt |-> ResetOptimizer(type),
                      grads |-> {},
                      updates |-> 0,
                      biasUpdates |-> 0,
                      updated |-> {},
                      log |-> <<>>,
                      tBefore |-> 0,
                      threw |-> FALSE,
                      op |-> "constructor",
                      calls |-> 0]
    /\ ret = None
    /\ EngineOff
    /\ CalcOff
    /\ StepOff
    /\ TrainOff

\* stepBackwardLayer of the last layer (lines 274-323) or
\* stepBackwardComplete (lines 326-370), which may throw on its way down:
\* the layers from k on hold gradients afterwards
MomentsBackward ==
    /\ frame.calls < MaxOptimizerCalls
    /\ \E k \in 1..Len(args.shapes) :
          frame' = [MomentsCall("backward") EXCEPT
                       !.grads = @ \cup k..Len(args.shapes)]
    /\ UNCHANGED <<fn, args, ret, engineAllVars, trainVars, calcVars, stepVars>>

\* stepUpdateWeights(learningRate), lines 373-431
MomentsStepUpdateWeights ==
    /\ frame.calls < MaxOptimizerCalls
    /\ frame' = StepUpdateMomentsFrom(MomentsCall("stepUpdateWeights"),
                                      args.shapes, 1)
    /\ UNCHANGED <<fn, args, ret, engineAllVars, trainVars, calcVars, stepVars>>

\* trainOneEpoch(input, target, learningRate), lines 526-547: the backward
\* pass leaves gradients on every layer
MomentsTrainOneEpoch ==
    /\ frame.calls < MaxOptimizerCalls
    /\ frame' = TrainUpdateMomentsFrom(
                    [MomentsCall("trainOneEpoch") EXCEPT
                        !.grads = 1..Len(args.shapes)],
                    args.shapes, 1)
    /\ UNCHANGED <<fn, args, ret, engineAllVars, trainVars, calcVars, stepVars>>

\* updateConfig(config), lines 47-54: another optimizer type brings a new
\* optimizer
MomentsUpdateConfig(type) ==
    /\ frame.calls < MaxOptimizerCalls
    /\ frame' = IF type # frame.opt.type
                THEN [MomentsCall("updateConfig") EXCEPT
                         !.opt = ResetOptimizer(type),
                         !.updates = 0,
                         !.biasUpdates = 0,
                         !.updated = {},
                         !.tBefore = 0]
                ELSE MomentsCall("updateConfig")
    /\ UNCHANGED <<fn, args, ret, engineAllVars, trainVars, calcVars, stepVars>>

MomentsNext ==
    \/ MomentsBackward
    \/ MomentsStepUpdateWeights
    \/ MomentsTrainOneEpoch
    \/ \E type \in OptimizerTypes : MomentsUpdateConfig(type)

MomentsSpec == MomentsInit /\ [][MomentsNext]_vars

\* the last operation was an update loop that ran to its end
UpdatedAllLayers ==
    /\ fn = "DebugEngine"
    /\ frame.op \in {"stepUpdateWeights", "trainOneEpoch"}
    /\ ~frame.threw

\* C25: since the last reset, Adam's step counter t equals the number of
\* update() calls plus the number of updateBias() calls: one
\* stepUpdateWeights or trainOneEpoch on an L-layer network advances t by
\* 2 * L, and each layer's bias correction uses a t that is one greater than
\* the t used for that layer's weights.
C25_AdamStepCounter ==
    (fn = "DebugEngine" /\ frame.opt.type = "adam")
    => /\ frame.opt.t = frame.updates + frame.biasUpdates
       /\ UpdatedAllLayers
          => /\ frame.opt.t = frame.tBefore + 2 * Len(args.shapes)
             /\ Len(frame.log) = 2 * Len(args.shapes)
             /\ \A i \in 1..Len(args.shapes) :
                   /\ frame.log[2 * i - 1].call = "update"
                   /\ frame.log[2 * i - 1].layer = i
                   /\ frame.log[2 * i].call = "updateBias"
                   /\ frame.log[2 * i].layer = i
                   /\ frame.log[2 * i].t = frame.log[2 * i - 1].t + 1

\* C25, the case: a second update loop has run on a network of two layers
\* or more under Adam
C25_Witness ==
    /\ UpdatedAllLayers
    /\ frame.opt.type = "adam"
    /\ Len(args.shapes) >= 2
    /\ frame.tBefore > 0
    /\ frame.opt.t = frame.tBefore + 2 * Len(args.shapes)


\* the layers before j whose weights have the shape of layer j's
SameShapeBefore(j) ==
    {i \in 1..(j - 1) : GetKey(args.shapes[i]) = GetKey(args.shapes[j])}

\* the greatest element of a non-empty set of numbers
Greatest(S) == CHOOSE n \in S : \A k \in S : k <= n

\* C26: Adam and RMSprop keep exactly one moment entry per distinct weight
\* shape (rows x cols) and per distinct bias length updated since the last
\* reset: two layers of one network whose weight matrices have the same
\* shape read and overwrite the same running-moment entry within a single
\* stepUpdateWeights or trainOneEpoch.
C26_MomentsSharedByShape ==
    (fn = "DebugEngine" /\ frame.opt.type \in {"adam", "rmsprop"})
    => /\ DOMAIN frame.opt.v = {GetKey(args.shapes[i]) : i \in frame.updated}
       /\ DOMAIN frame.opt.biasV
             = {GetBiasKey(args.shapes[i]) : i \in frame.updated}
       /\ frame.opt.type = "adam"
          => /\ DOMAIN frame.opt.m = DOMAIN frame.opt.v
             /\ DOMAIN frame.opt.biasM = DOMAIN frame.opt.biasV
       /\ UpdatedAllLayers
          => \A j \in 1..Len(args.shapes) :
                SameShapeBefore(j) # {}
                => LET i == Greatest(SameShapeBefore(j))
                   IN  /\ frame.log[2 * j - 1].key = frame.log[2 * i - 1].key
                       /\ frame.log[2 * j - 1].read
                             = Append(frame.log[2 * i - 1].read, i)
                       /\ \E n \in 1..Len(frame.opt.v[GetKey(args.shapes[j])]) :
                             /\ frame.opt.v[GetKey(args.shapes[j])][n] = i
                             /\ frame.opt.v[GetKey(args.shapes[j])][n + 1] = j

\* C26, the case: one update loop has run over two layers of one shape, and
\* the entry of that shape holds the gradients of both
C26_Witness ==
    /\ UpdatedAllLayers
    /\ frame.opt.type \in {"adam", "rmsprop"}
    /\ frame.calls = 1
    /\ \E j \in 1..Len(args.shapes) : SameShapeBefore(j) # {}
    /\ frame.opt.v[<<1, 1>>] = [i \in 1..Len(args.shapes) |-> i]
    /\ Cardinality(DOMAIN frame.opt.v) = 1


(***************************************************************************)
(* The end of a training run (TrainSpec).                                  *)
(***************************************************************************)
\* C30: every training run started by trainNetwork ends, under every
\* interleaving of Pause clicks with the epoch loop, either with isTraining
\* false and isPaused true (resumable) or with isTraining false and
\* isPaused false (finished), never with isTraining left true after the
\* loop has exited.
C30_RunEndsNotTraining ==
    (trainingLoops = {} /\ AllRendered) => ~isTraining.state

====
